---------------------------- MODULE Spec2Model ----------------------------
(***************************************************************************)
(* A model of the SBC encoder of crates/sbc-encoder: frame geometry        *)
(* (config.rs), bit allocation (bitalloc.rs), scale factors, joint stereo  *)
(* and quantization (quantizer.rs), the analysis filterbank (analysis.rs), *)
(* the frame packer (frame.rs) and the orchestrator (lib.rs); of the       *)
(* single-producer single-consumer ring buffer of crates/audio-pipeline    *)
(* (ring_buffer.rs); and of the connection state machine of                *)
(* crates/a2dp-app (state_machine.rs).                                     *)
(*                                                                         *)
(* Rust integers are modelled by TLA+ integers.  x >> k on a signed value  *)
(* is the floor division x \div 2^k, Rust's / truncates toward zero        *)
(* (TruncDiv), and u8 / u32 arithmetic is reduced modulo its width where   *)
(* the code can wrap.                                                      *)
(***************************************************************************)
EXTENDS Integers, Sequences, FiniteSets, TLC

VARIABLES
    config,     \* SbcConfig of the encoder / of the call under study
    analysis,   \* AnalysisFilter: [x |-> [ch -> [index -> i32]], x_pos |-> usize]
    packer,     \* FramePacker: [bit_buffer |-> u32, bits_in_buffer |-> u8]
    args,       \* arguments of the last call
    ret,        \* what the last call returned (or how it panicked)
    op,         \* the last operation performed
    before,     \* the encoder state (analysis, packer) when the last call began
    calls,      \* number of encode_frame calls made so far
    ring,       \* RingBuffer: [buffer |-> [index -> item], head, tail]
    producer,   \* the thread inside RingBuffer::write: position and locals
    consumer,   \* the thread inside RingBuffer::read: position and locals
    log,        \* the items write has accepted and read has returned so far
    machine     \* StateMachine: [state, remote_addr, acl_handle]

encoder_vars == <<config, analysis, packer, args, ret, op, before, calls>>

pipeline_vars == <<ring, producer, consumer, log>>

vars == <<config, analysis, packer, args, ret, op, before, calls,
          ring, producer, consumer, log, machine>>

(***************************************************************************)
(* Integer helpers                                                         *)
(***************************************************************************)
Pow2(n) == 2 ^ n

Abs(v) == IF v < 0 THEN -v ELSE v

Max2(a, b) == IF a > b THEN a ELSE b

Min2(a, b) == IF a < b THEN a ELSE b

\* Rust's signed integer division: truncation toward zero.
TruncDiv(a, b) ==
    IF (a >= 0) = (b >= 0) THEN Abs(a) \div Abs(b) ELSE -(Abs(a) \div Abs(b))

\* Arithmetic right shift of a signed value.
Shr(v, k) == v \div Pow2(k)

\* e, computed once v has been: the steps of a call are computed in program
\* order, each of them once.
Then(v, e) == IF v = v THEN e ELSE e

\* Bit k of a non-negative value.
Bit(v, k) == (v \div Pow2(k)) % 2

(***************************************************************************)
(* config.rs                                                               *)
(***************************************************************************)
SamplingFrequency == {"Freq16000", "Freq32000", "Freq44100", "Freq48000"}

ChannelMode == {"Mono", "DualChannel", "Stereo", "JointStereo"}

BlockLength == {"Blocks4", "Blocks8", "Blocks12", "Blocks16"}

Subbands == {"Sub4", "Sub8"}

AllocationMethod == {"Snr", "Loudness"}

\* SamplingFrequency as u8 / as usize
FreqIndex(f) ==
    CASE f = "Freq16000" -> 0
      [] f = "Freq32000" -> 1
      [] f = "Freq44100" -> 2
      [] f = "Freq48000" -> 3

\* ChannelMode::channels
ModeChannels(m) == IF m = "Mono" THEN 1 ELSE 2

\* BlockLength::count
BlockCount(b) ==
    CASE b = "Blocks4" -> 4
      [] b = "Blocks8" -> 8
      [] b = "Blocks12" -> 12
      [] b = "Blocks16" -> 16

\* Subbands::count
SubbandCount(s) == IF s = "Sub4" THEN 4 ELSE 8

SbcConfig(f, m, b, s, a, bp) ==
    [sampling_frequency |-> f, channel_mode |-> m, block_length |-> b,
     subbands |-> s, allocation_method |-> a, bitpool |-> bp]

\* SbcConfig::default
DefaultConfig ==
    SbcConfig("Freq44100", "JointStereo", "Blocks16", "Sub8", "Loudness", 53)

\* SbcConfig::max_bitpool
max_bitpool(c) ==
    LET subbands == SubbandCount(c.subbands)
        computed == IF c.channel_mode \in {"Mono", "DualChannel"}
                    THEN 16 * subbands ELSE 32 * subbands
    IN  IF computed > 250 THEN 250 ELSE computed

\* SbcConfig::is_valid
is_valid(c) ==
    IF c.bitpool < 2 THEN FALSE
    ELSE IF c.bitpool > max_bitpool(c) THEN FALSE
    ELSE TRUE

\* SbcConfig::channels
channels(c) == ModeChannels(c.channel_mode)

\* SbcConfig::samples_per_frame
samples_per_frame(c) == BlockCount(c.block_length) * SubbandCount(c.subbands)

\* SbcConfig::frame_size
frame_size(c) ==
    LET subbands == SubbandCount(c.subbands)
        blocks == BlockCount(c.block_length)
        nch == channels(c)
        header == 4
        scale_factors ==
            IF c.channel_mode = "JointStereo"
            THEN (subbands + 2 * subbands * 4) \div 8 + 1
            ELSE (nch * subbands * 4) \div 8
        audio_bits ==
            IF c.channel_mode \in {"Mono", "DualChannel"}
            THEN nch * blocks * c.bitpool
            ELSE blocks * c.bitpool
        audio == (audio_bits + 7) \div 8
    IN  header + scale_factors + audio

\* lib.rs: MAX_SBC_FRAME_SIZE
MAX_SBC_FRAME_SIZE == 512

(***************************************************************************)
(* tables.rs                                                               *)
(***************************************************************************)
\* LOUDNESS_OFFSET_8[freq_index][subband]
LOUDNESS_OFFSET_8 ==
    << <<-1, 0, 0, 0, 0, 0, 0, 1>>,
       <<-2, 0, 0, 0, 0, 0, 1, 2>>,
       <<-2, 0, 0, 0, 0, 0, 1, 2>>,
       <<-2, 0, 0, 0, 0, 0, 1, 2>> >>

\* LOUDNESS_OFFSET_4[freq_index][subband]
LOUDNESS_OFFSET_4 ==
    << <<-1, 0, 0, 1>>,
       <<-2, 0, 0, 2>>,
       <<-2, 0, 0, 2>>,
       <<-2, 0, 0, 2>> >>

\* SCALE_FACTOR_LEVELS[scale_factor] = 2^(scale_factor + 1)
SCALE_FACTOR_LEVELS ==
    <<2, 4, 8, 16, 32, 64, 128, 256, 512, 1024, 2048, 4096, 8192, 16384,
      32768, 65536>>

(***************************************************************************)
(* bitalloc.rs                                                             *)
(***************************************************************************)
MAX_SUBBANDS == 8

MAX_CHANNELS == 2

ChRange == 0..(MAX_CHANNELS - 1)

SbRange == 0..(MAX_SUBBANDS - 1)

\* [[0; MAX_SUBBANDS]; MAX_CHANNELS]
ZeroMatrix == [ch \in ChRange |-> [sb \in SbRange |-> 0]]

\* The cells visited by "for ch in 0..num_channels { for sb in 0..num_subbands",
\* in visiting order: cell k is <<ch, sb>>.
CellCh(k, num_subbands) == k \div num_subbands

CellSb(k, num_subbands) == k % num_subbands

\* allocate_snr, lines 52-61: bitneed = scale_factor
snr_bitneed(scale_factors, c) ==
    [ch \in ChRange |-> [sb \in SbRange |->
        IF ch < channels(c) /\ sb < SubbandCount(c.subbands)
        THEN scale_factors[ch][sb] ELSE 0]]

\* allocate_loudness without the branch that gives a silent subband -5.
loudness_bitneed_NoSilentCase(scale_factors, c) ==
    LET num_subbands == SubbandCount(c.subbands)
        freq_idx == FreqIndex(c.sampling_frequency)
        need(ch, sb) ==
            LET sf == scale_factors[ch][sb]
                offset == IF num_subbands = 8
                          THEN LOUDNESS_OFFSET_8[freq_idx + 1][sb + 1]
                          ELSE LOUDNESS_OFFSET_4[freq_idx + 1][sb + 1]
            IN  IF sf > offset THEN sf - offset
                ELSE TruncDiv(sf - offset, 2)
    IN  [ch \in ChRange |-> [sb \in SbRange |->
            IF ch < channels(c) /\ sb < num_subbands THEN need(ch, sb) ELSE 0]]

\* allocate_loudness, lines 79-106
loudness_bitneed(scale_factors, c) ==
    LET num_subbands == SubbandCount(c.subbands)
        freq_idx == FreqIndex(c.sampling_frequency)
        need(ch, sb) ==
            LET sf == scale_factors[ch][sb]
                offset == IF num_subbands = 8
                          THEN LOUDNESS_OFFSET_8[freq_idx + 1][sb + 1]
                          ELSE LOUDNESS_OFFSET_4[freq_idx + 1][sb + 1]
            IN  IF sf = 0 THEN -5
                ELSE IF sf > offset THEN sf - offset
                ELSE TruncDiv(sf - offset, 2)
    IN  [ch \in ChRange |-> [sb \in SbRange |->
            IF ch < channels(c) /\ sb < num_subbands THEN need(ch, sb) ELSE 0]]

\* distribute_bits, lines 130-139: the maximum bitneed (starting from i32::MIN)
RECURSIVE MaxBitneed(_, _, _, _)
MaxBitneed(bitneed, num_subbands, k, acc) ==
    IF k < 0 THEN acc
    ELSE MaxBitneed(bitneed, num_subbands, k - 1,
            Max2(acc, bitneed[CellCh(k, num_subbands)][CellSb(k, num_subbands)]))

\* i32::MIN
I32_MIN == -2147483647 - 1

\* distribute_bits, lines 157-167: bits needed at one slice level
RECURSIVE SliceBitsUsed(_, _, _, _, _)
SliceBitsUsed(bitneed, bits, bitslice, num_subbands, k) ==
    IF k < 0 THEN 0
    ELSE LET ch == CellCh(k, num_subbands)
             sb == CellSb(k, num_subbands)
             here == IF bitneed[ch][sb] = bitslice + 1 THEN 2
                     ELSE IF bitneed[ch][sb] > bitslice /\ bits[ch][sb] > 0 THEN 1
                     ELSE 0
         IN  here + SliceBitsUsed(bitneed, bits, bitslice, num_subbands, k - 1)

\* distribute_bits, lines 172-180: the grant of one slice level
SliceApply(bitneed, bits, bitslice, num_channels, num_subbands) ==
    [ch \in ChRange |-> [sb \in SbRange |->
        IF ch < num_channels /\ sb < num_subbands
        THEN IF bitneed[ch][sb] = bitslice + 1 THEN 2
             ELSE IF bitneed[ch][sb] > bitslice /\ bits[ch][sb] > 0
                  THEN bits[ch][sb] + 1
             ELSE bits[ch][sb]
        ELSE bits[ch][sb]]]

MAX_ITERATIONS == 64

\* distribute_bits, lines 147-183: the bit-slice pass.  st is
\* [bits, remaining_bits, bitslice, rejected, granted_after_reject, iters].
RECURSIVE SlicePass(_, _, _, _, _)
SlicePass(bitneed, st, num_channels, num_subbands, iter) ==
    IF iter >= MAX_ITERATIONS THEN [st EXCEPT !.capped = TRUE]
    ELSE IF st.bitslice <= 0 \/ st.remaining_bits <= 0 THEN st
    ELSE
        LET bitslice == st.bitslice - 1
            bits_used == SliceBitsUsed(bitneed, st.bits, bitslice, num_subbands,
                                       num_channels * num_subbands - 1)
            next ==
                IF bits_used <= st.remaining_bits
                THEN [st EXCEPT
                        !.bits = SliceApply(bitneed, st.bits, bitslice,
                                            num_channels, num_subbands),
                        !.remaining_bits = st.remaining_bits - bits_used,
                        !.bitslice = bitslice,
                        !.granted_after_reject =
                            st.granted_after_reject \/ (st.rejected /\ bits_used > 0),
                        !.iters = iter + 1]
                ELSE [st EXCEPT !.bitslice = bitslice, !.rejected = TRUE,
                                !.iters = iter + 1]
        IN  SlicePass(bitneed, next, num_channels, num_subbands, iter + 1)

\* Whether a cell the sweep has not reached yet (after cell k) already has
\* bits, needs bits and is below the ceiling of 16.
WaitingAfter(bitneed, bits, num_channels, num_subbands, k) ==
    \E j \in (k + 1)..(num_channels * num_subbands - 1) :
        /\ bits[CellCh(j, num_subbands)][CellSb(j, num_subbands)] > 0
        /\ bits[CellCh(j, num_subbands)][CellSb(j, num_subbands)] < 16
        /\ bitneed[CellCh(j, num_subbands)][CellSb(j, num_subbands)] > 0

\* Mutant of SecondSweep: an idle cell is started with whatever is left,
\* 1 bit when only 1 remains.
RECURSIVE SecondSweep_IdleTakesRest(_, _, _, _, _)
SecondSweep_IdleTakesRest(bitneed, sw, num_channels, num_subbands, k) ==
    IF k >= num_channels * num_subbands THEN sw
    ELSE IF sw.remaining_bits <= 0 THEN sw
    ELSE
        LET ch == CellCh(k, num_subbands)
            sb == CellSb(k, num_subbands)
            grant == IF sw.bits[ch][sb] = 0 THEN Min2(2, sw.remaining_bits) ELSE 1
            next ==
                IF sw.bits[ch][sb] < 16 /\ bitneed[ch][sb] > 0
                THEN [sw EXCEPT !.bits[ch][sb] = sw.bits[ch][sb] + grant,
                                !.remaining_bits = sw.remaining_bits - grant,
                                !.allocated = TRUE]
                ELSE sw
        IN  SecondSweep_IdleTakesRest(bitneed, next, num_channels, num_subbands, k + 1)

\* distribute_bits, lines 197-219: one sweep of the second pass over the cells.
\* sw is [bits, remaining_bits, allocated, idle_first]; idle_first records
\* that an idle cell was given bits while a cell with bits was waiting.
RECURSIVE SecondSweep(_, _, _, _, _)
SecondSweep(bitneed, sw, num_channels, num_subbands, k) ==
    IF k >= num_channels * num_subbands THEN sw
    ELSE IF sw.remaining_bits <= 0 THEN sw
    ELSE
        LET ch == CellCh(k, num_subbands)
            sb == CellSb(k, num_subbands)
            next ==
                IF sw.bits[ch][sb] < 16 /\ bitneed[ch][sb] > 0
                THEN IF sw.bits[ch][sb] = 0
                     THEN IF sw.remaining_bits >= 2
                          THEN [sw EXCEPT !.bits[ch][sb] = 2,
                                          !.remaining_bits = sw.remaining_bits - 2,
                                          !.allocated = TRUE,
                                          !.idle_first =
                                              sw.idle_first \/
                                              WaitingAfter(bitneed, sw.bits,
                                                  num_channels, num_subbands, k)]
                          ELSE sw
                     ELSE [sw EXCEPT !.bits[ch][sb] = sw.bits[ch][sb] + 1,
                                     !.remaining_bits = sw.remaining_bits - 1,
                                     !.allocated = TRUE]
                ELSE sw
        IN  SecondSweep(bitneed, next, num_channels, num_subbands, k + 1)

MAX_REMAINING_ITERATIONS == 256

\* Mutant of SecondPass: a single sweep over the cells, never repeated.
SecondPass_OneSweep(bitneed, st, num_channels, num_subbands, iter) ==
    IF st.remaining_bits <= 0 THEN st
    ELSE
        LET sw == SecondSweep(bitneed,
                    [bits |-> st.bits, remaining_bits |-> st.remaining_bits,
                     allocated |-> FALSE, idle_first |-> st.idle_first],
                    num_channels, num_subbands, 0)
        IN  [st EXCEPT !.bits = sw.bits,
                       !.remaining_bits = sw.remaining_bits,
                       !.idle_first = sw.idle_first,
                       !.iters = iter + 1]

\* distribute_bits, lines 188-224: the second pass.
RECURSIVE SecondPass(_, _, _, _, _)
SecondPass(bitneed, st, num_channels, num_subbands, iter) ==
    IF iter >= MAX_REMAINING_ITERATIONS THEN [st EXCEPT !.capped = TRUE]
    ELSE IF st.remaining_bits <= 0 THEN st
    ELSE
        LET sw == SecondSweep(bitneed,
                    [bits |-> st.bits, remaining_bits |-> st.remaining_bits,
                     allocated |-> FALSE, idle_first |-> st.idle_first],
                    num_channels, num_subbands, 0)
            next == [st EXCEPT !.bits = sw.bits,
                               !.remaining_bits = sw.remaining_bits,
                               !.idle_first = sw.idle_first,
                               !.iters = iter + 1]
        IN  IF ~sw.allocated THEN next
            ELSE SecondPass(bitneed, next, num_channels, num_subbands, iter + 1)

\* distribute_bits, line 230: whether subband sb is joined
JoinFlag(join_flags, num_subbands, sb) == Bit(join_flags, num_subbands - 1 - sb) = 1

\* Mutant of JointAdjust: the join flag of subband sb is read at bit sb.
JointAdjust_FlagAtSb(bits, c, join_flags) ==
    LET num_subbands == SubbandCount(c.subbands)
    IN  IF c.channel_mode = "JointStereo" /\ channels(c) = 2
        THEN [ch \in ChRange |-> [sb \in SbRange |->
                IF sb < num_subbands /\ Bit(join_flags, sb) = 1
                THEN Max2(bits[0][sb], bits[1][sb])
                ELSE bits[ch][sb]]]
        ELSE bits

\* distribute_bits, lines 227-237: joined subbands share bits
JointAdjust(bits, c, join_flags) ==
    LET num_subbands == SubbandCount(c.subbands)
    IN  IF c.channel_mode = "JointStereo" /\ channels(c) = 2
        THEN [ch \in ChRange |-> [sb \in SbRange |->
                IF sb < num_subbands /\ JoinFlag(join_flags, num_subbands, sb)
                THEN Max2(bits[0][sb], bits[1][sb])
                ELSE bits[ch][sb]]]
        ELSE bits

\* distribute_bits, lines 115-240, keeping what each pass left behind:
\* slice and second are the states at the end of the two passes, bits is
\* the returned matrix.
distribute_trace(bitneed, c, join_flags) ==
    LET num_subbands == SubbandCount(c.subbands)
        num_channels == channels(c)
        max_bitneed == MaxBitneed(bitneed, num_subbands,
                                  num_channels * num_subbands - 1, I32_MIN)
        slice == SlicePass(bitneed,
                    [bits |-> ZeroMatrix, remaining_bits |-> c.bitpool,
                     bitslice |-> max_bitneed + 1, rejected |-> FALSE,
                     granted_after_reject |-> FALSE, iters |-> 0,
                     capped |-> FALSE],
                    num_channels, num_subbands, 0)
        second == SecondPass(bitneed,
                    [bits |-> slice.bits, remaining_bits |-> slice.remaining_bits,
                     iters |-> 0, capped |-> FALSE, idle_first |-> FALSE],
                    num_channels, num_subbands, 0)
    IN  [bitneed |-> bitneed, slice |-> slice, second |-> second,
         bits |-> JointAdjust(second.bits, c, join_flags)]

\* distribute_bits
distribute_bits(bitneed, c, join_flags) ==
    distribute_trace(bitneed, c, join_flags).bits

\* BitAllocator::allocate with allocate_snr / allocate_loudness, keeping the
\* trace of distribute_bits
allocate_trace(scale_factors, c, join_flags) ==
    IF c.allocation_method = "Snr"
    THEN distribute_trace(snr_bitneed(scale_factors, c), c, join_flags)
    ELSE distribute_trace(loudness_bitneed(scale_factors, c), c, join_flags)

\* BitAllocator::allocate
allocate(scale_factors, c, join_flags) ==
    allocate_trace(scale_factors, c, join_flags).bits

\* Sum of a matrix over the active channel/subband cells
RECURSIVE SumCells(_, _, _)
SumCells(m, num_subbands, k) ==
    IF k < 0 THEN 0
    ELSE m[CellCh(k, num_subbands)][CellSb(k, num_subbands)]
         + SumCells(m, num_subbands, k - 1)

TotalBits(m, c) ==
    SumCells(m, SubbandCount(c.subbands), channels(c) * SubbandCount(c.subbands) - 1)

(***************************************************************************)
(* State shared by the specifications                                      *)
(***************************************************************************)
MAX_BLOCKS == 16

FILTER_DEPTH == 10

\* AnalysisFilter::new
NewAnalysis ==
    [x |-> [ch \in 0..(MAX_CHANNELS - 1) |->
                [i \in 0..(MAX_SUBBANDS * FILTER_DEPTH - 1) |-> 0]],
     x_pos |-> 0]

\* FramePacker::new
NewPacker == [bit_buffer |-> 0, bits_in_buffer |-> 0]

NoArgs == [none |-> TRUE]

\* The ring buffer and the state machine in the specifications that do not
\* use them.
PipelineUnused ==
    /\ ring = [none |-> TRUE]
    /\ producer = [none |-> TRUE]
    /\ consumer = [none |-> TRUE]
    /\ log = [none |-> TRUE]

MachineUnused == machine = [none |-> TRUE]

NoRet == [kind |-> "none"]

(***************************************************************************)
(* Geometry specification: every geometry a caller can build with          *)
(* SbcConfig::new (bitpool is a u8), handed to SbcEncoder::new.            *)
(***************************************************************************)
AllGeometries ==
    {SbcConfig(f, m, b, s, a, bp) :
        f \in SamplingFrequency, m \in ChannelMode, b \in BlockLength,
        s \in Subbands, a \in AllocationMethod, bp \in 0..255}

GeomInit ==
    /\ config \in AllGeometries
    /\ analysis = NewAnalysis
    /\ packer = NewPacker
    /\ args = NoArgs
    /\ ret = NoRet
    /\ op = "init"
    /\ before = NoArgs
    /\ calls = 0
    /\ PipelineUnused
    /\ MachineUnused

\* SbcEncoder::new on a valid geometry, followed by SbcEncoder::frame_size.
NewEncoder ==
    /\ op = "init"
    /\ is_valid(config)
    /\ op' = "new"
    /\ ret' = [kind |-> "encoder", frame_size |-> frame_size(config),
               samples_per_frame |-> samples_per_frame(config)]
    /\ UNCHANGED <<config, analysis, packer, args, before, calls>>
    /\ UNCHANGED <<pipeline_vars, machine>>

\* SbcEncoder::new on an invalid geometry: assert!(config.is_valid()) fails.
NewEncoderPanics ==
    /\ op = "init"
    /\ ~is_valid(config)
    /\ op' = "panic"
    /\ ret' = [kind |-> "panic", message |-> "Invalid SBC configuration"]
    /\ UNCHANGED <<config, analysis, packer, args, before, calls>>
    /\ UNCHANGED <<pipeline_vars, machine>>

GeomNext == NewEncoder \/ NewEncoderPanics

SpecGeom == GeomInit /\ [][GeomNext]_vars

\* C3: for every geometry accepted by is_valid, frame_size() is greater than 0
\* and at most MAX_SBC_FRAME_SIZE, so a 512-byte output buffer always passes
\* the output size check of encode_frame.
C3_FrameSizeWithinMax ==
    op = "new" =>
        /\ ret.frame_size > 0
        /\ ret.frame_size <= MAX_SBC_FRAME_SIZE

(***************************************************************************)
(* Allocation specification: BitAllocator::allocate applied to scale       *)
(* factor matrices, geometries and join flags drawn from bounded sets.     *)
(***************************************************************************)
\* Scale-factor rows for four subbands (entries in [0,15]); an eight-subband
\* row repeats the four-subband row.
SfRows ==
    {<<0, 0, 0, 0>>, <<15, 15, 15, 15>>, <<15, 0, 0, 0>>, <<0, 0, 0, 15>>,
     <<0, 1, 0, 0>>, <<1, 2, 3, 4>>, <<15, 14, 13, 12>>, <<5, 5, 5, 5>>,
     <<10, 10, 10, 10>>, <<3, 0, 7, 1>>}

SfMatrix(rowL, rowR) ==
    [ch \in ChRange |-> [sb \in SbRange |->
        IF ch = 0 THEN rowL[(sb % 4) + 1] ELSE rowR[(sb % 4) + 1]]]

AllocBitpools == {2, 5, 17, 19, 53, 250}

JoinFlagChoices == {0, 5, 255}

AllocGeometries ==
    {c \in {SbcConfig(f, m, "Blocks16", s, a, bp) :
                f \in {"Freq16000", "Freq44100"}, m \in ChannelMode,
                s \in Subbands, a \in AllocationMethod, bp \in AllocBitpools} :
        is_valid(c)}

AllocInit ==
    /\ config \in AllocGeometries
    /\ \E rowL \in SfRows :
         \E rowR \in (IF config.channel_mode = "Mono" THEN {<<0, 0, 0, 0>>} ELSE SfRows) :
           \E jf \in (IF config.channel_mode = "JointStereo"
                      THEN JoinFlagChoices ELSE {0}) :
             args = [scale_factors |-> SfMatrix(rowL, rowR), join_flags |-> jf]
    /\ analysis = NewAnalysis
    /\ packer = NewPacker
    /\ ret = NoRet
    /\ op = "init"
    /\ before = NoArgs
    /\ calls = 0
    /\ PipelineUnused
    /\ MachineUnused

\* BitAllocator::allocate(scale_factors, config, join_flags)
Allocate ==
    /\ op = "init"
    /\ op' = "allocate"
    /\ ret' = allocate_trace(args.scale_factors, config, args.join_flags)
    /\ UNCHANGED <<config, analysis, packer, args, before, calls>>
    /\ UNCHANGED <<pipeline_vars, machine>>

AllocNext == Allocate

SpecAlloc == AllocInit /\ [][AllocNext]_vars

\* C1: the bits returned by allocate, summed over the active channel/subband
\* cells, never exceed the configured bitpool.
C1_TotalWithinBitpool ==
    op = "allocate" => TotalBits(ret.bits, config) <= config.bitpool

\* C2: every cell of the bit matrix returned by allocate is in [0,16].
C2_CellsWithin16 ==
    op = "allocate" =>
        \A ch \in ChRange : \A sb \in SbRange :
            ret.bits[ch][sb] >= 0 /\ ret.bits[ch][sb] <= 16

\* C20: in the bit-slice pass of distribute_bits, once the grant of a
\* threshold level is rejected because it would use more than the remaining
\* bits, no lower threshold level grants any bits.
C20_NoGrantAfterRejection ==
    op = "allocate" => ~ret.slice.granted_after_reject

\* C21: in the second pass of distribute_bits an idle cell (0 bits, need
\* > 0) receives bits only when no cell with need > 0, nonzero bits and
\* fewer than 16 bits is left waiting for a bit.
C21_CellsWithBitsServedFirst ==
    op = "allocate" => ~ret.second.idle_first

\* The active cells with need > 0 and fewer than 16 bits when the second
\* pass of the last allocate call ended.
EligibleCells ==
    {cell \in ChRange \X SbRange :
        /\ cell[1] < channels(config)
        /\ cell[2] < SubbandCount(config.subbands)
        /\ ret.bitneed[cell[1]][cell[2]] > 0
        /\ ret.second.bits[cell[1]][cell[2]] < 16}

\* C22 as stated: distribute_bits terminates without either iteration cap
\* (64 slice iterations, 256 second-pass iterations) ending a pass, and
\* when the second pass ends either the remaining budget is 0 or no cell
\* with need > 0 and fewer than 16 bits exists.
C22_DistributionRunsOut ==
    op = "allocate" =>
        /\ ~ret.slice.capped
        /\ ~ret.second.capped
        /\ (ret.second.remaining_bits = 0 \/ EligibleCells = {})

\* C22, amended: distribute_bits terminates without either iteration cap
\* ending a pass, and when the second pass ends either the remaining
\* budget is 0, or no cell with need > 0 and fewer than 16 bits exists, or
\* exactly 1 bit remains and every such cell is idle (0 bits), which the
\* 2-bit minimum keeps from taking it.
C22_DistributionRunsOutButOneBit ==
    op = "allocate" =>
        /\ ~ret.slice.capped
        /\ ~ret.second.capped
        /\ ret.second.remaining_bits >= 0
        /\ \/ ret.second.remaining_bits = 0
           \/ EligibleCells = {}
           \/ /\ ret.second.remaining_bits = 1
              /\ \A cell \in EligibleCells :
                    ret.second.bits[cell[1]][cell[2]] = 0

\* Witness of C22: the second pass ran more than one sweep and ended with
\* 1 bit left over and an idle cell that needs bits.
C22_Witness ==
    /\ op = "allocate"
    /\ ret.second.iters > 1
    /\ ~ret.second.capped
    /\ ret.second.remaining_bits = 1
    /\ EligibleCells # {}

\* C27: allocate never assigns exactly 1 bit to a cell: every entry of the
\* returned bit matrix is 0 or at least 2.
C27_NeverOneBit ==
    op = "allocate" =>
        \A ch \in ChRange : \A sb \in SbRange :
            ret.bits[ch][sb] = 0 \/ ret.bits[ch][sb] >= 2

\* Witness of C27: allocate returned with 1 bit left over, next to an idle
\* cell that needs bits and a cell the second pass filled to 16 bits.
C27_Witness ==
    /\ op = "allocate"
    /\ ret.second.remaining_bits = 1
    /\ \E ch \in ChRange : \E sb \in SbRange :
          /\ ch < channels(config) /\ sb < SubbandCount(config.subbands)
          /\ ret.bitneed[ch][sb] > 0
          /\ ret.bits[ch][sb] = 0
    /\ \E ch \in ChRange : \E sb \in SbRange :
          ret.slice.bits[ch][sb] < 16 /\ ret.bits[ch][sb] = 16

\* C8: in JointStereo mode every subband whose join flag (bit
\* subbands-1-index of join_flags) is set gets, in both channels, the maximum
\* of the two channels' allocations before the adjustment; the other subbands
\* keep their independent allocations.
C8_JoinedSubbandsShareMax ==
    (op = "allocate" /\ config.channel_mode = "JointStereo") =>
        LET n == SubbandCount(config.subbands)
            pre == ret.second.bits
        IN  \A sb \in 0..(n - 1) :
                IF (args.join_flags \div (2 ^ (n - 1 - sb))) % 2 = 1
                THEN /\ ret.bits[0][sb] = ret.bits[1][sb]
                     /\ ret.bits[0][sb] = Max2(pre[0][sb], pre[1][sb])
                ELSE /\ ret.bits[0][sb] = pre[0][sb]
                     /\ ret.bits[1][sb] = pre[1][sb]

\* Witness of C8: a joint-stereo allocation in which a joined subband had
\* different allocations before the adjustment and an unjoined subband keeps
\* different allocations.
C8_Witness ==
    /\ op = "allocate"
    /\ config.channel_mode = "JointStereo"
    /\ LET n == SubbandCount(config.subbands)
           pre == ret.second.bits
       IN  /\ \E sb \in 0..(n - 1) :
                /\ (args.join_flags \div (2 ^ (n - 1 - sb))) % 2 = 1
                /\ pre[0][sb] # pre[1][sb]
                /\ ret.bits[0][sb] = ret.bits[1][sb]
           /\ \E sb \in 0..(n - 1) :
                /\ (args.join_flags \div (2 ^ (n - 1 - sb))) % 2 = 0
                /\ ret.bits[0][sb] # ret.bits[1][sb]

(***************************************************************************)
(* quantizer.rs: scale factors and joint stereo                            *)
(***************************************************************************)
BlkRange == 0..(MAX_BLOCKS - 1)

ZeroSubbands ==
    [ch \in ChRange |-> [blk \in BlkRange |-> [sb \in SbRange |-> 0]]]

\* 32 - max_val.leading_zeros() for a non-negative i32
RECURSIVE BitsNeeded(_)
BitsNeeded(v) == IF v = 0 THEN 0 ELSE 1 + BitsNeeded(v \div 2)

\* calc_single_scale_factor that takes the bit length of max_val itself as
\* the scale factor, without the - 1.
calc_single_scale_factor_BitLength(max_val) ==
    IF max_val = 0
    THEN 0
    ELSE LET sf == BitsNeeded(max_val)
         IN  IF sf > 15 THEN 15 ELSE sf

calc_single_scale_factor(max_val) ==
    IF max_val = 0
    THEN 0
    ELSE LET bits_needed == BitsNeeded(max_val)
             sf == IF bits_needed > 1 THEN bits_needed - 1 ELSE 0
         IN  IF sf > 15 THEN 15 ELSE sf

\* The max_val loop of calc_scale_factors over blocks blk..num_blocks-1.
RECURSIVE MaxAbsVal(_, _, _, _, _, _)
MaxAbsVal(subbands, ch, sb, num_blocks, blk, max_val) ==
    IF blk >= num_blocks
    THEN max_val
    ELSE LET abs_val == Abs(subbands[ch][blk][sb])
         IN  MaxAbsVal(subbands, ch, sb, num_blocks, blk + 1,
                       IF abs_val > max_val THEN abs_val ELSE max_val)

calc_scale_factors(subbands, c) ==
    LET num_subbands == SubbandCount(c.subbands)
        num_blocks == BlockCount(c.block_length)
        num_channels == channels(c)
    IN  [ch \in ChRange |-> [sb \in SbRange |->
            IF ch < num_channels /\ sb < num_subbands
            THEN calc_single_scale_factor(
                     MaxAbsVal(subbands, ch, sb, num_blocks, 0, 0))
            ELSE 0]]

\* The accumulation loop of should_use_joint: sum over the blocks of
\* subbands[a][blk][sb] * subbands[b][blk][sb].
RECURSIVE SumProduct(_, _, _, _, _, _)
SumProduct(subbands, a, b, sb, num_blocks, blk) ==
    IF blk >= num_blocks
    THEN 0
    ELSE subbands[a][blk][sb] * subbands[b][blk][sb]
         + SumProduct(subbands, a, b, sb, num_blocks, blk + 1)

\* i64 multiplication as should_use_joint needs it: the product of two
\* non-negative values below 2^31, as six base-2^11 digits, most significant
\* first (a product of two such values does not fit the checker's integers).
Limb == Pow2(11)

WideMul(a, b) ==
    LET a0 == a % Limb
        a1 == (a \div Limb) % Limb
        a2 == a \div (Limb * Limb)
        b0 == b % Limb
        b1 == (b \div Limb) % Limb
        b2 == b \div (Limb * Limb)
        c0 == a0 * b0
        c1 == a0 * b1 + a1 * b0 + (c0 \div Limb)
        c2 == a0 * b2 + a1 * b1 + a2 * b0 + (c1 \div Limb)
        c3 == a1 * b2 + a2 * b1 + (c2 \div Limb)
        c4 == a2 * b2 + (c3 \div Limb)
    IN  <<c4 \div Limb, c4 % Limb, c3 % Limb, c2 % Limb, c1 % Limb, c0 % Limb>>

\* x >= y on two products
WideGe(x, y) ==
    \/ x = y
    \/ \E i \in 1..6 :
          /\ x[i] > y[i]
          /\ \A j \in 1..(i - 1) : x[j] = y[j]

\* should_use_joint with a strict comparison in place of >=.
should_use_joint_Strict(subbands, sb, num_blocks, left_sf, right_sf) ==
    LET sf_diff == IF left_sf > right_sf
                   THEN left_sf - right_sf ELSE right_sf - left_sf
        sum_product == SumProduct(subbands, 0, 1, sb, num_blocks, 0)
        sum_left_sq == SumProduct(subbands, 0, 0, sb, num_blocks, 0)
        sum_right_sq == SumProduct(subbands, 1, 1, sb, num_blocks, 0)
        threshold == WideMul(Shr(sum_left_sq, 2), Shr(sum_right_sq, 2))
        product_sq == WideMul(Abs(Shr(sum_product, 2)), Abs(Shr(sum_product, 2)))
    IN  IF sf_diff > 4
        THEN FALSE
        ELSE IF sum_left_sq = 0 \/ sum_right_sq = 0
             THEN FALSE
             ELSE product_sq # threshold /\ WideGe(product_sq, threshold)

should_use_joint(subbands, sb, num_blocks, left_sf, right_sf) ==
    LET sf_diff == IF left_sf > right_sf
                   THEN left_sf - right_sf ELSE right_sf - left_sf
        sum_product == SumProduct(subbands, 0, 1, sb, num_blocks, 0)
        sum_left_sq == SumProduct(subbands, 0, 0, sb, num_blocks, 0)
        sum_right_sq == SumProduct(subbands, 1, 1, sb, num_blocks, 0)
        threshold == WideMul(Shr(sum_left_sq, 2), Shr(sum_right_sq, 2))
        product_sq == WideMul(Abs(Shr(sum_product, 2)), Abs(Shr(sum_product, 2)))
    IN  IF sf_diff > 4
        THEN FALSE
        ELSE IF sum_left_sq = 0 \/ sum_right_sq = 0
             THEN FALSE
             ELSE WideGe(product_sq, threshold)

JoinLimit(num_subbands) ==
    IF num_subbands = 8 THEN num_subbands - 1 ELSE num_subbands

\* join_flags after the loop over sb..join_limit-1: each joined subband sets
\* bit num_subbands-1-sb, and the bits are distinct, so |= is a sum.
RECURSIVE JoinFlagsFrom(_, _, _, _, _)
JoinFlagsFrom(subbands, scale_factors, num_subbands, num_blocks, sb) ==
    IF sb >= JoinLimit(num_subbands)
    THEN 0
    ELSE (IF should_use_joint(subbands, sb, num_blocks,
                              scale_factors[0][sb], scale_factors[1][sb])
          THEN Pow2(num_subbands - 1 - sb) ELSE 0)
         + JoinFlagsFrom(subbands, scale_factors, num_subbands, num_blocks,
                         sb + 1)

\* joint_stereo_process: returns the subbands and the join flags.  The
\* decision for a subband reads only that subband's column, which earlier
\* iterations leave alone, so every decision reads the input samples.
joint_stereo_process(subbands, scale_factors, c) ==
    IF c.channel_mode # "JointStereo"
    THEN [subbands |-> subbands, join_flags |-> 0]
    ELSE LET num_subbands == SubbandCount(c.subbands)
             num_blocks == BlockCount(c.block_length)
             join_flags == JoinFlagsFrom(subbands, scale_factors,
                                         num_subbands, num_blocks, 0)
         IN  Then(join_flags,
               [subbands |->
                 [ch \in ChRange |-> [blk \in BlkRange |-> [sb \in SbRange |->
                    IF /\ sb < JoinLimit(num_subbands)
                       /\ blk < num_blocks
                       /\ JoinFlag(join_flags, num_subbands, sb)
                    THEN LET left == subbands[0][blk][sb]
                             right == subbands[1][blk][sb]
                         IN  IF ch = 0
                             THEN Shr(left + right, 1)
                             ELSE Shr(left - right, 1)
                    ELSE subbands[ch][blk][sb]]]],
                join_flags |-> join_flags])

(***************************************************************************)
(* Joint stereo specification: joint_stereo_process applied to subband     *)
(* samples built from per-block patterns of the two channels.              *)
(***************************************************************************)
JointBlockLength == "Blocks4"

JointBlocks == BlockCount(JointBlockLength)

SampleValues == {0, 1, 5000}

\* Subband sb carries the block pattern multiplied by SubbandGain[sb + 1].
SubbandGain == <<1, -1, 2, -2, 1, 2, -1, -2>>

PatternSubbands(patL, patR, c) ==
    [ch \in ChRange |-> [blk \in BlkRange |-> [sb \in SbRange |->
        IF blk < BlockCount(c.block_length) /\ sb < SubbandCount(c.subbands)
        THEN SubbandGain[sb + 1] * (IF ch = 0 THEN patL ELSE patR)[blk + 1]
        ELSE 0]]]

\* The scale factors of the quantizer's own joint stereo test.
TestScaleFactors == [ch \in ChRange |-> [sb \in SbRange |-> 4]]

JointGeometries ==
    {SbcConfig("Freq44100", m, JointBlockLength, s, "Loudness", 20) :
        m \in {"JointStereo", "Stereo"}, s \in Subbands}

JointInit ==
    /\ config \in JointGeometries
    /\ \E patL \in [1..JointBlocks -> SampleValues] :
         \E patR \in [1..JointBlocks -> SampleValues] :
           \E sf_from \in (IF config.subbands = "Sub8" /\ config.channel_mode = "JointStereo"
                           THEN {"calc", "test"} ELSE {"calc"}) :
             LET subbands == PatternSubbands(patL, patR, config)
             IN  args = [subbands |-> subbands,
                         scale_factors |->
                            IF sf_from = "calc"
                            THEN calc_scale_factors(subbands, config)
                            ELSE TestScaleFactors]
    /\ analysis = NewAnalysis
    /\ packer = NewPacker
    /\ ret = NoRet
    /\ op = "init"
    /\ before = NoArgs
    /\ calls = 0
    /\ PipelineUnused
    /\ MachineUnused

\* Quantizer::joint_stereo_process(subbands, &scale_factors, &config)
JointStereoProcess ==
    /\ op = "init"
    /\ op' = "joint"
    /\ ret' = joint_stereo_process(args.subbands, args.scale_factors, config)
    /\ UNCHANGED <<config, analysis, packer, args, before, calls>>
    /\ UNCHANGED <<pipeline_vars, machine>>

JointNext == JointStereoProcess

SpecJoint == JointInit /\ [][JointNext]_vars

\* C9: in JointStereo mode, an eligible subband (index below subbands-1 in
\* eight-subband mode, every index in four-subband mode) in which the left
\* and right channels hold the same nonzero samples in every block, with
\* equal scale factors, gets its join flag set, its side (right) samples all
\* 0 and its mid (left) samples equal to the original samples.  When this
\* holds of every subband it is the statement for whole channels.
C9_IdenticalChannelsJoined ==
    (op = "joint" /\ config.channel_mode = "JointStereo") =>
        LET n == SubbandCount(config.subbands)
            nb == BlockCount(config.block_length)
            limit == IF n = 8 THEN 7 ELSE n
        IN  \A sb \in 0..(limit - 1) :
                (/\ \A blk \in 0..(nb - 1) :
                        /\ args.subbands[0][blk][sb] = args.subbands[1][blk][sb]
                        /\ args.subbands[0][blk][sb] # 0
                 /\ args.scale_factors[0][sb] = args.scale_factors[1][sb])
                =>
                (/\ (ret.join_flags \div (2 ^ (n - 1 - sb))) % 2 = 1
                 /\ \A blk \in 0..(nb - 1) :
                        /\ ret.subbands[1][blk][sb] = 0
                        /\ ret.subbands[0][blk][sb] = args.subbands[0][blk][sb])

\* Witness of C9: an eight-subband joint-stereo call in which both channels
\* hold the same nonzero samples in every block of every subband, with
\* samples of different magnitudes and signs, and all seven eligible
\* subbands are joined.
C9_Witness ==
    /\ op = "joint"
    /\ config.channel_mode = "JointStereo"
    /\ config.subbands = "Sub8"
    /\ \A sb \in 0..7 : \A blk \in 0..(JointBlocks - 1) :
            /\ args.subbands[0][blk][sb] = args.subbands[1][blk][sb]
            /\ args.subbands[0][blk][sb] # 0
    /\ \A sb \in 0..7 : args.scale_factors[0][sb] = args.scale_factors[1][sb]
    /\ \E blk \in 0..(JointBlocks - 1) :
            Abs(args.subbands[0][blk][0]) # Abs(args.subbands[0][0][0])
    /\ ret.join_flags = 254
    /\ \A sb \in 0..6 : \A blk \in 0..(JointBlocks - 1) :
            /\ ret.subbands[1][blk][sb] = 0
            /\ ret.subbands[0][blk][sb] = args.subbands[0][blk][sb]

\* C10: in JointStereo mode, a subband whose left and right samples have a
\* zero sum of products over the blocks (in particular a subband in which
\* one channel is silent) does not get its join flag set, whatever the
\* magnitudes of the samples.
C10_UncorrelatedNotJoined ==
    (op = "joint" /\ config.channel_mode = "JointStereo") =>
        LET n == SubbandCount(config.subbands)
            nb == BlockCount(config.block_length)
            limit == IF n = 8 THEN 7 ELSE n
        IN  \A sb \in 0..(limit - 1) :
                (SumProduct(args.subbands, 0, 1, sb, nb, 0) = 0)
                => (ret.join_flags \div (2 ^ (n - 1 - sb))) % 2 = 0

(***************************************************************************)
(* tables.rs: analysis filter tables                                       *)
(***************************************************************************)
\* PROTO_8_80[i] is PROTO_8_80[i + 1] here (tuples are indexed from 1).
PROTO_8_80 ==
  <<
     0, 131, -2877, 5705, -9735, 25068, -36987, 108726, -212481, 706833, 1,
     -127, 2919, -5704, 9850, -15248, 40855, -107119, 229507, -664312, 2,
     -238, 1440, -3217, 3229, -6530, 16167, -29167, 57181, -203322, 1, -26,
     272, -955, -15, -1322, -1722, 822, -10336, 11269, 0, 0, -15, 48, -166,
     349, -1252, 2385, -7316, 18150, 0, 1, -11, 43, -130, 216, -417, 937,
     -2481, 5362, 0, 0, -3, 10, -37, 45, -82, 105, -147, 153, 0, 0, 0, 1,
     -4, 6, -7, 9, -3, 3
  >>

PROTO_4_40 ==
  <<
     0, 358, -5779, 11413, -19470, 50137, -73976, 217410, -424964, 1413666,
     2, -253, 5812, -11408, 19669, -30496, 81743, -214238, 459015,
     -1328624, 0, 0, -15, 97, -332, 698, -2504, 4770, -14631, 36300, 0, 0,
     -3, 9, -43, 59, -104, 122, -67, 70
  >>

\* COS_TABLE_8[k][n] is COS_TABLE_8[k + 1][n + 1] here.
COS_TABLE_8 ==
  <<
     <<11585, 11585, 11585, 11585, 11585, 11585, 11585, 11585>>,
     <<15137, 15137, 6270, -6270, -15137, -15137, -6270, 6270>>,
     <<15137, 0, -15137, -15137, 0, 15137, 15137, 0>>,
     <<15137, -6270, -15137, 6270, 15137, -6270, -15137, 6270>>,
     <<11585, -11585, -11585, 11585, 11585, -11585, -11585, 11585>>,
     <<6270, -15137, 6270, 6270, -15137, 6270, 6270, -15137>>,
     <<0, -15137, 15137, 0, -15137, 15137, 0, -15137>>,
     <<-6270, -6270, 15137, -15137, 6270, 6270, -15137, 15137>>
  >>

COS_TABLE_4 ==
  <<
     <<11585, 11585, 11585, 11585>>,
     <<15137, 6270, -6270, -15137>>,
     <<11585, -11585, -11585, 11585>>,
     <<6270, -15137, 15137, -6270>>
  >>

(***************************************************************************)
(* analysis.rs                                                             *)
(***************************************************************************)
\* (a * b) >> k in i64, for k >= 8.  The product is formed in two parts so
\* that no intermediate value leaves the checker's integer range:
\* a = 256 * (a div 256) + (a mod 256).
MulShr(a, b, k) == Shr((a \div 256) * b + ((a % 256) * b) \div 256, k - 8)

ProtoVal(num_subbands, proto_idx) ==
    IF num_subbands = 8
    THEN PROTO_8_80[proto_idx + 1]
    ELSE PROTO_4_40[proto_idx + 1]

CosVal(num_subbands, k, cos_idx) ==
    IF num_subbands = 8
    THEN COS_TABLE_8[k + 1][cos_idx + 1]
    ELSE COS_TABLE_4[k + 1][cos_idx + 1]

HistoryRange == 0..(MAX_SUBBANDS * FILTER_DEPTH - 1)

\* AnalysisFilter::reset that clears x_pos and leaves the history alone.
AnalysisReset_KeepsHistory(an) == [an EXCEPT !.x_pos = 0]

\* AnalysisFilter::reset
AnalysisReset(an) ==
    [x |-> [ch \in ChRange |-> [i \in HistoryRange |-> 0]], x_pos |-> 0]

\* Mutant of shift_in_samples: the new samples are written in PCM order,
\* not reversed.
shift_in_samples_Forward(x_ch, pcm, block, channel, num_subbands, num_channels) ==
    LET pcm_start == (block * num_subbands * num_channels) + channel
        history_len == num_subbands * FILTER_DEPTH
    IN  [i \in HistoryRange |->
            IF i < num_subbands
            THEN pcm[pcm_start + i * num_channels + 1]
            ELSE IF i < history_len
                 THEN x_ch[i - num_subbands]
                 ELSE x_ch[i]]

\* shift_in_samples on one channel's history; pcm[i] of the code is
\* pcm[i + 1] here.
shift_in_samples(x_ch, pcm, block, channel, num_subbands, num_channels) ==
    LET pcm_start == (block * num_subbands * num_channels) + channel
        history_len == num_subbands * FILTER_DEPTH
    IN  [i \in HistoryRange |->
            IF i < num_subbands
            THEN pcm[pcm_start + (num_subbands - 1 - i) * num_channels + 1]
            ELSE IF i < history_len
                 THEN x_ch[i - num_subbands]
                 ELSE x_ch[i]]

\* Step 1 of compute_subbands: the terms j, j + 2, j + 4, ... of
\* z[i + (j % 2) * subbands].
RECURSIVE WindowSum(_, _, _, _)
WindowSum(x_ch, num_subbands, i, j) ==
    IF j >= FILTER_DEPTH
    THEN 0
    ELSE MulShr(x_ch[j * num_subbands + i],
                ProtoVal(num_subbands, j * num_subbands + i), 15)
         + WindowSum(x_ch, num_subbands, i, j + 2)

WindowZ(x_ch, num_subbands) ==
    [z_idx \in 0..(MAX_SUBBANDS * 2 - 1) |->
        IF z_idx < 2 * num_subbands
        THEN WindowSum(x_ch, num_subbands, z_idx % num_subbands,
                       z_idx \div num_subbands)
        ELSE 0]

\* Step 2 of compute_subbands: the sum over i..2*subbands-1 for subband k.
RECURSIVE MatrixSum(_, _, _, _)
MatrixSum(z, num_subbands, k, i) ==
    IF i >= num_subbands * 2
    THEN 0
    ELSE MulShr(z[i], CosVal(num_subbands, k, i % num_subbands), 14)
         + MatrixSum(z, num_subbands, k, i + 1)

compute_subbands(x_ch, num_subbands) ==
    LET z == WindowZ(x_ch, num_subbands)
    IN  Then(z, [k \in SbRange |->
                    IF k < num_subbands
                    THEN Shr(MatrixSum(z, num_subbands, k, 0), 8)
                    ELSE 0])

\* The block loop of process for one channel, from block blk on;
\* st = [x |-> the channel's history, out |-> output[ch]].
\* One block of one channel in process: the history x_ch after
\* shift_in_samples, and the subband samples computed from it stored at blk.
ProcessBlock(st, x_ch, num_subbands, blk) ==
    Then(x_ch,
         [x |-> x_ch,
          out |-> [st.out EXCEPT
                     ![blk] = compute_subbands(x_ch, num_subbands)]])

RECURSIVE ProcessChannel(_, _, _, _, _, _, _)
ProcessChannel(st, pcm, ch, num_subbands, num_channels, num_blocks, blk) ==
    IF blk >= num_blocks
    THEN st
    ELSE Then(st,
              ProcessChannel(
                  ProcessBlock(st,
                               shift_in_samples(st.x, pcm, blk, ch,
                                                num_subbands, num_channels),
                               num_subbands, blk),
                  pcm, ch, num_subbands, num_channels, num_blocks, blk + 1))

process(an, pcm, c) ==
    LET num_subbands == SubbandCount(c.subbands)
        num_blocks == BlockCount(c.block_length)
        num_channels == channels(c)
        per == [ch \in ChRange |->
                  IF ch < num_channels
                  THEN ProcessChannel([x |-> an.x[ch], out |-> ZeroSubbands[ch]],
                                      pcm, ch, num_subbands, num_channels,
                                      num_blocks, 0)
                  ELSE [x |-> an.x[ch], out |-> ZeroSubbands[ch]]]
    IN  [analysis |-> [x |-> [ch \in ChRange |-> per[ch].x],
                       x_pos |-> an.x_pos],
         output |-> [ch \in ChRange |-> per[ch].out]]
(***************************************************************************)
(* quantizer.rs: quantization                                              *)
(***************************************************************************)
quantize_sample(sample, bits, scale_level) ==
    LET levels == Pow2(bits) - 1
        normalized == TruncDiv(sample * Pow2(15), scale_level)
        offset == normalized + 32768
        quantized == MulShr(offset, levels, 16)
    IN  IF quantized < 0
        THEN 0
        ELSE IF quantized > levels THEN levels ELSE quantized

\* quantize reaches quantize_sample's assert!(bits > 0 && bits <= 16) with a
\* bit count above 16 (cells with 0 bits are skipped).
QuantizePanics(bits, c) ==
    \E ch \in 0..(channels(c) - 1) :
        \E sb \in 0..(SubbandCount(c.subbands) - 1) : bits[ch][sb] > 16

quantize(subbands, bits, scale_factors, c) ==
    LET num_subbands == SubbandCount(c.subbands)
        num_blocks == BlockCount(c.block_length)
        num_channels == channels(c)
    IN  [ch \in ChRange |-> [blk \in BlkRange |-> [sb \in SbRange |->
            IF /\ ch < num_channels
               /\ sb < num_subbands
               /\ blk < num_blocks
               /\ bits[ch][sb] # 0
            THEN quantize_sample(subbands[ch][blk][sb], bits[ch][sb],
                                 SCALE_FACTOR_LEVELS[scale_factors[ch][sb] + 1])
            ELSE 0]]]
(***************************************************************************)
(* frame.rs                                                                *)
(***************************************************************************)
SBC_SYNCWORD == 156

\* header_bits() of the four enums of config.rs (self as u8)
ModeHeaderBits(m) ==
    CASE m = "Mono" -> 0
      [] m = "DualChannel" -> 1
      [] m = "Stereo" -> 2
      [] m = "JointStereo" -> 3

BlockHeaderBits(b) ==
    CASE b = "Blocks4" -> 0
      [] b = "Blocks8" -> 1
      [] b = "Blocks12" -> 2
      [] b = "Blocks16" -> 3

SubbandHeaderBits(s) == IF s = "Sub4" THEN 0 ELSE 1

AllocHeaderBits(a) == IF a = "Snr" THEN 0 ELSE 1

\* | on u8, over the low k bits.
RECURSIVE Or(_, _, _)
Or(a, b, k) ==
    IF k = 0
    THEN 0
    ELSE (IF a % 2 = 1 \/ b % 2 = 1 THEN 1 ELSE 0)
         + 2 * Or(a \div 2, b \div 2, k - 1)

\* << on u8: the bits shifted past bit 7 are dropped.
Shl8(v, k) == (v * Pow2(k)) % 256

\* Byte 1 of the header with the channel mode shifted by 3 instead of 2.
HeaderByte1_ModeShift3(c) ==
    Or(Or(Or(Or(Shl8(FreqIndex(c.sampling_frequency), 6),
                Shl8(BlockHeaderBits(c.block_length), 4), 8),
             Shl8(ModeHeaderBits(c.channel_mode), 3), 8),
          Shl8(AllocHeaderBits(c.allocation_method), 1), 8),
       SubbandHeaderBits(c.subbands), 8)

\* Byte 1 of the header.
HeaderByte1(c) ==
    Or(Or(Or(Or(Shl8(FreqIndex(c.sampling_frequency), 6),
                Shl8(BlockHeaderBits(c.block_length), 4), 8),
             Shl8(ModeHeaderBits(c.channel_mode), 2), 8),
          Shl8(AllocHeaderBits(c.allocation_method), 1), 8),
       SubbandHeaderBits(c.subbands), 8)

\* FramePacker::reset
PackerReset(pk) == [bit_buffer |-> 0, bits_in_buffer |-> 0]

\* The state of one pack call: the packer's fields, the write position, the
\* bytes output[0..pos] written so far and whether an assertion has failed
\* ("" while none has).
PackState(pk, pos, output) ==
    [bit_buffer |-> pk.bit_buffer, bits_in_buffer |-> pk.bits_in_buffer,
     pos |-> pos, output |-> output, panic |-> ""]

\* assert!(*pos < output.len()); output[*pos] = byte; *pos += 1
PutByte(w, byte, output_len) ==
    IF w.pos < output_len
    THEN [w EXCEPT !.output = Append(@, byte), !.pos = @ + 1]
    ELSE [w EXCEPT !.panic = "Output buffer overflow"]

\* The flush loop of write_bits, with n iterations left.
RECURSIVE FlushBytes(_, _, _)
FlushBytes(w, n, output_len) ==
    IF n = 0 \/ w.panic # "" \/ w.bits_in_buffer < 8
    THEN w
    ELSE LET left == w.bits_in_buffer - 8
             byte == (w.bit_buffer \div Pow2(left)) % 256
         IN  FlushBytes(PutByte([w EXCEPT !.bits_in_buffer = left], byte,
                                output_len),
                        n - 1, output_len)

\* write_bits.  bit_buffer holds the bits_in_buffer pending bits: the code's
\* u32 also keeps bits that were already written out above them, which
\* neither write_bits nor flush reads again.
write_bits(w, value, num_bits, output_len) ==
    IF w.panic # ""
    THEN w
    ELSE IF num_bits > 32
         THEN [w EXCEPT !.panic = "Too many bits"]
         ELSE IF num_bits = 0
              THEN [w EXCEPT !.panic = "Zero bits"]
              ELSE FlushBytes(
                       [w EXCEPT
                          !.bit_buffer = (w.bit_buffer % Pow2(w.bits_in_buffer))
                                             * Pow2(num_bits)
                                         + (value % Pow2(num_bits)),
                          !.bits_in_buffer = @ + num_bits],
                       4, output_len)

\* Mutant of flush: a padding byte is written even when no bits are
\* pending.
flush_AlwaysPads(w, output_len) ==
    IF w.panic # ""
    THEN w
    ELSE LET padding == 8 - w.bits_in_buffer
             byte == (w.bit_buffer * Pow2(padding)) % 256
             put == PutByte(w, byte, output_len)
         IN  IF put.panic # ""
             THEN put
             ELSE [put EXCEPT !.bit_buffer = 0, !.bits_in_buffer = 0]

\* flush
flush(w, output_len) ==
    IF w.panic # ""
    THEN w
    ELSE LET padding == 8 - w.bits_in_buffer
             byte == (w.bit_buffer * Pow2(padding)) % 256
             put == IF w.bits_in_buffer > 0
                    THEN PutByte(w, byte, output_len)
                    ELSE w
         IN  IF put.panic # ""
             THEN put
             ELSE LET pk == PackerReset(put)
                  IN  [put EXCEPT !.bit_buffer = pk.bit_buffer,
                                  !.bits_in_buffer = pk.bits_in_buffer]

\* a ^ b on the low k bits
RECURSIVE Xor(_, _, _)
Xor(a, b, k) ==
    IF k = 0
    THEN 0
    ELSE ((a + b) % 2) + 2 * Xor(a \div 2, b \div 2, k - 1)

CRC_POLY == 29

\* The bit loop of calc_crc for one byte, from bit on.
RECURSIVE CrcByte(_, _, _)
CrcByte(crc, byte, bit) ==
    IF bit >= 8
    THEN crc
    ELSE LET msb == (crc \div 128) % 2
             shifted == (crc * 2) % 256
         IN  CrcByte(IF Xor((byte \div Pow2(7 - bit)) % 2, msb, 1) = 1
                     THEN Xor(shifted, CRC_POLY, 8)
                     ELSE shifted,
                     byte, bit + 1)

\* The byte loop of calc_crc over data[i..last); data[i] of the code is
\* data[i + 1] here and crc is a u8.
RECURSIVE CrcRun(_, _, _, _)
CrcRun(data, i, last, crc) ==
    IF crc > 255 \/ i >= last
    THEN crc
    ELSE CrcRun(data, i + 1, last,
                IF i = 3 THEN crc ELSE CrcByte(crc, data[i + 1], 0))

\* The byte loop of calc_crc over data[i..], taken in runs of 32 bytes.
RECURSIVE CrcFrom(_, _, _)
CrcFrom(data, i, crc) ==
    IF crc > 255 \/ i >= Len(data)
    THEN crc
    ELSE LET last == Min2(i + Pow2(5), Len(data))
         IN  CrcFrom(data, last, CrcRun(data, i, last, crc))

\* calc_crc that does not skip the CRC byte: every byte from data[1] on
\* enters the register.
RECURSIVE CrcRun_NoSkip(_, _, _, _)
CrcRun_NoSkip(data, lo, hi, crc) ==
    IF crc > 255 \/ hi - lo <= 0
    THEN crc
    ELSE IF hi - lo = 1
         THEN CrcByte(crc, data[lo + 1], 0)
         ELSE CrcRun_NoSkip(data, (lo + hi) \div 2, hi,
                            CrcRun_NoSkip(data, lo, (lo + hi) \div 2, crc))

calc_crc_NoSkip(data) == CrcRun_NoSkip(data, 1, Len(data), 15)

calc_crc(data) == CrcFrom(data, 1, 15)

\* The scale factor loop of pack, from cell k = ch * subbands + sb on.
RECURSIVE PackScaleFactors(_, _, _, _, _, _)
PackScaleFactors(w, scale_factors, num_channels, num_subbands, k, output_len) ==
    IF w.panic # "" \/ k >= num_channels * num_subbands
    THEN w
    ELSE PackScaleFactors(
             write_bits(w, scale_factors[CellCh(k, num_subbands)]
                                        [CellSb(k, num_subbands)],
                        4, output_len),
             scale_factors, num_channels, num_subbands, k + 1, output_len)

\* The channel and subband loops of pack for one block, from cell k on.
RECURSIVE PackBlock(_, _, _, _, _, _, _, _)
PackBlock(w, bits, samples, blk, num_channels, num_subbands, k, output_len) ==
    IF w.panic # "" \/ k >= num_channels * num_subbands
    THEN w
    ELSE LET ch == CellCh(k, num_subbands)
             sb == CellSb(k, num_subbands)
             bit_count == bits[ch][sb]
         IN  PackBlock(IF bit_count > 0
                       THEN write_bits(w, samples[ch][blk][sb], bit_count,
                                       output_len)
                       ELSE w,
                       bits, samples, blk, num_channels, num_subbands, k + 1,
                       output_len)

\* The block loop of pack, from block blk on.
RECURSIVE PackBlocks(_, _, _, _, _, _, _, _)
PackBlocks(w, bits, samples, num_blocks, num_ch, num_sb, blk, output_len) ==
    IF w.panic # "" \/ blk >= num_blocks
    THEN w
    ELSE PackBlocks(PackBlock(w, bits, samples, blk, num_ch, num_sb, 0,
                              output_len),
                    bits, samples, num_blocks, num_ch, num_sb, blk + 1,
                    output_len)

\* FramePacker::pack: [packer, size, output, panic]; output holds the bytes
\* output[0..size] of the caller's buffer, the rest of which is not written.
PackReturn(w) ==
    Then(w,
         [packer |-> [bit_buffer |-> w.bit_buffer,
                      bits_in_buffer |-> w.bits_in_buffer],
          size |-> w.pos,
          output |-> IF w.panic = ""
                     THEN [w.output EXCEPT ![4] = calc_crc(w.output)]
                     ELSE w.output,
          panic |-> w.panic])

PackBody(w0, c, join_flags, scale_factors, bits, samples, output_len) ==
    PackReturn(
        flush(
            PackBlocks(
                PackScaleFactors(
                    IF c.channel_mode = "JointStereo"
                    THEN write_bits(w0, join_flags,
                                    SubbandCount(c.subbands), output_len)
                    ELSE w0,
                    scale_factors, channels(c), SubbandCount(c.subbands), 0,
                    output_len),
                bits, samples, BlockCount(c.block_length), channels(c),
                SubbandCount(c.subbands), 0, output_len),
            output_len))

pack(pk, c, join_flags, scale_factors, bits, samples, output_len) ==
    IF output_len < 4
    THEN [packer |-> pk, size |-> 0, output |-> <<>>,
          panic |-> "Output buffer too small for header"]
    ELSE PackBody(PackState(PackerReset(pk), 4,
                            <<SBC_SYNCWORD, HeaderByte1(c), c.bitpool, 0>>),
                  c, join_flags, scale_factors, bits, samples, output_len)
(***************************************************************************)
(* lib.rs: SbcEncoder                                                      *)
(***************************************************************************)
\* What a call of encode_frame returned, with the values its steps computed
\* on the way: subbands are the samples handed to the quantizer and samples
\* the codes handed to the packer.
Result(kind, detail, size, output, scale_factors, join_flags, bits, subbands, samples) ==
    [kind |-> kind, detail |-> detail, size |-> size, output |-> output,
     scale_factors |-> scale_factors, join_flags |-> join_flags,
     bits |-> bits, subbands |-> subbands, samples |-> samples]

Err(error) ==
    Result("Err", error, 0, <<>>, ZeroMatrix, 0, ZeroMatrix, ZeroSubbands,
           ZeroSubbands)

\* The value encode_frame returns once pack has returned: the final size
\* assertion, then Ok(size).
EncodeReturn(an, scale_factors, join_flags, bits, subbands, quantized, packed) ==
    Then(packed,
         [analysis |-> an,
          packer |-> packed.packer,
          ret |-> Result(IF packed.panic # ""
                            \/ packed.size > MAX_SBC_FRAME_SIZE
                         THEN "panic" ELSE "Ok",
                         IF packed.panic # ""
                         THEN packed.panic
                         ELSE IF packed.size > MAX_SBC_FRAME_SIZE
                              THEN "Frame size exceeded maximum"
                              ELSE "",
                         packed.size, packed.output,
                         scale_factors, join_flags, bits, subbands,
                         quantized)])

\* Step 6 of encode_frame, on the quantized samples.
EncodePack(an, pk, c, scale_factors, join_flags, bits, subbands, quantized, output_len) ==
    Then(quantized,
         EncodeReturn(an, scale_factors, join_flags, bits, subbands, quantized,
                      pack(pk, c, join_flags, scale_factors, bits, quantized,
                           output_len)))

\* Step 5 of encode_frame, on the bit allocation.
EncodeQuantize(an, pk, c, subbands, scale_factors, join_flags, bits, output_len) ==
    IF Then(bits, QuantizePanics(bits, c))
    THEN [analysis |-> an, packer |-> pk,
          ret |-> Result("panic", "Invalid bit count", 0, <<>>,
                         scale_factors, join_flags, bits, subbands,
                         ZeroSubbands)]
    ELSE EncodePack(an, pk, c, scale_factors, join_flags, bits, subbands,
                    quantize(subbands, bits, scale_factors, c), output_len)

\* Step 4 of encode_frame, on the result js of the joint stereo step.
EncodeAllocate(an, pk, c, scale_factors, js, output_len) ==
    Then(js,
         EncodeQuantize(an, pk, c, js.subbands, scale_factors, js.join_flags,
                        allocate(scale_factors, c, js.join_flags),
                        output_len))

\* Step 3 of encode_frame, on the scale factors.
EncodeJoint(an, pk, c, subbands, scale_factors, output_len) ==
    Then(scale_factors,
         EncodeAllocate(an, pk, c, scale_factors,
                        IF c.channel_mode = "JointStereo"
                        THEN joint_stereo_process(subbands, scale_factors, c)
                        ELSE [subbands |-> subbands, join_flags |-> 0],
                        output_len))

\* Step 2 of encode_frame, on the result pr of the analysis filter.
EncodeScale(pr, pk, c, output_len) ==
    Then(pr,
         EncodeJoint(pr.analysis, pk, c, pr.output,
                     calc_scale_factors(pr.output, c), output_len))

\* Steps 1 to 6 of encode_frame and the final size assertion: the encoder's
\* fields after the call and what the call returns (or the panic it ends in).
EncodeStages(an, pk, c, pcm, output_len) ==
    EncodeScale(process(an, pcm, c), pk, c, output_len)

\* encode_frame that runs the analysis filter before it validates the
\* output size.
encode_frame_AnalysisFirst(an, pk, c, pcm, output_len) ==
    LET samples_needed == samples_per_frame(c) * channels(c)
    IN  IF Len(pcm) < samples_needed
        THEN [analysis |-> an, packer |-> pk, ret |-> Err("InputTooSmall")]
        ELSE IF output_len < frame_size(c)
             THEN [analysis |-> process(an, pcm, c).analysis, packer |-> pk,
                   ret |-> Err("OutputTooSmall")]
             ELSE EncodeStages(an, pk, c, pcm, output_len)

\* SbcEncoder::encode_frame
encode_frame(an, pk, c, pcm, output_len) ==
    LET samples_needed == samples_per_frame(c) * channels(c)
    IN  IF Len(pcm) < samples_needed
        THEN [analysis |-> an, packer |-> pk, ret |-> Err("InputTooSmall")]
        ELSE IF output_len < frame_size(c)
             THEN [analysis |-> an, packer |-> pk,
                   ret |-> Err("OutputTooSmall")]
             ELSE EncodeStages(an, pk, c, pcm, output_len)

(***************************************************************************)
(* Encoder specification: one SbcEncoder, a bounded number of encode_frame *)
(* calls with PCM frames and output buffers of several lengths, and        *)
(* reset between them.  A call that panics leaves the encoder as the       *)
(* unwinding finds it; a caller that catches the panic can go on using it. *)
(***************************************************************************)
MaxCalls == 2

PcmKinds == {"silence", "same", "tone", "loud", "wide"}

\* Sample at index idx of the interleaved buffer.
PcmSample(kind, idx, num_channels) ==
    LET frame == idx \div num_channels
    IN  CASE kind = "silence" -> 0
          [] kind = "same" -> 1000 - 150 * (frame % 5)
          [] kind = "tone" -> ((idx * idx * 31 + idx * 17) % 4001) - 2000
          [] kind = "loud" -> IF (frame \div 2) % 2 = 0 THEN 32767 ELSE -32768
          [] kind = "wide" -> (1000 - 150 * (frame % 5)) * (2 + (idx % num_channels))

Pcm(kind, len, num_channels) ==
    [i \in 1..len |-> PcmSample(kind, i - 1, num_channels)]

SmallGeometries ==
    {SbcConfig("Freq44100", "Mono", "Blocks4", "Sub4", "Loudness", 10),
     SbcConfig("Freq16000", "DualChannel", "Blocks4", "Sub4", "Snr", 8),
     SbcConfig("Freq48000", "Stereo", "Blocks4", "Sub8", "Loudness", 30),
     SbcConfig("Freq44100", "JointStereo", "Blocks4", "Sub4", "Snr", 2),
     SbcConfig("Freq32000", "JointStereo", "Blocks4", "Sub4", "Loudness", 20)}

\* The default geometry and the largest joint-stereo geometry is_valid
\* accepts.
LargeGeometries ==
    {DefaultConfig,
     SbcConfig("Freq44100", "JointStereo", "Blocks16", "Sub8", "Snr", 250)}

EncGeometries == SmallGeometries \cup LargeGeometries

\* The (pcm kind, pcm length, output length) triples of one geometry.
EncInputs(c) ==
    LET needed == samples_per_frame(c) * channels(c)
        size == frame_size(c)
    IN  IF c \in LargeGeometries
        THEN {<<"silence", needed, size>>,
              <<"same", needed, size>>}
        ELSE (IF c.channel_mode = "JointStereo"
              THEN {<<"wide", needed, size>>} ELSE {}) \cup
             {<<"silence", needed, size>>,
              <<"same", needed, size>>,
              <<"tone", needed, size>>,
              <<"loud", needed + 1, MAX_SBC_FRAME_SIZE>>,
              <<"tone", needed - 1, size - 1>>,
              <<"tone", needed, size - 1>>}

EncInit ==
    /\ config \in EncGeometries
    /\ analysis = NewAnalysis
    /\ packer = NewPacker
    /\ args = NoArgs
    /\ ret = NoRet
    /\ op = "init"
    /\ before = NoArgs
    /\ calls = 0
    /\ PipelineUnused
    /\ MachineUnused

\* SbcEncoder::encode_frame(pcm, output).  before is the encoder on entry
\* to the operation, whether the call follows a reset, whether that reset
\* cleared a history that was not clear, whether it follows a call that
\* returned Ok, and, for a call on a clear history,
\* what a newly constructed encoder of the same geometry returns for the
\* same arguments.
EncodeFrame ==
    /\ calls < MaxCalls
    /\ \E input \in EncInputs(config) :
       \E pcm \in {Pcm(input[1], input[2], channels(config))} :
       \E r \in {encode_frame(analysis, packer, config, pcm, input[3])} :
         /\ args' = [pcm |-> pcm, output_len |-> input[3]]
         /\ analysis' = r.analysis
         /\ packer' = r.packer
         /\ ret' = r.ret
         /\ before' = [analysis |-> analysis, packer |-> packer,
                       after_reset |-> (op = "reset"),
                       history_cleared |->
                           (op = "reset" /\ before.analysis # analysis),
                       prev_ok |-> (op = "encode" /\ ret.kind = "Ok"),
                       fresh |->
                           IF op = "reset" \/ analysis = NewAnalysis
                           THEN encode_frame(NewAnalysis, NewPacker,
                                             config, pcm, input[3]).ret
                           ELSE NoRet]
    /\ op' = "encode"
    /\ calls' = calls + 1
    /\ UNCHANGED config
    /\ UNCHANGED <<pipeline_vars, machine>>

\* SbcEncoder::reset
Reset ==
    /\ op # "reset"
    /\ analysis' = AnalysisReset(analysis)
    /\ op' = "reset"
    /\ ret' = NoRet
    /\ before' = [analysis |-> analysis, packer |-> packer]
    /\ UNCHANGED <<config, packer, args, calls>>
    /\ UNCHANGED <<pipeline_vars, machine>>

EncNext == EncodeFrame \/ Reset

SpecEnc == EncInit /\ [][EncNext]_vars

\* C4: a call with enough PCM samples and an output buffer of exactly
\* frame_size() bytes returns Ok(n) with n <= frame_size(): the packer does
\* not reach its "Output buffer overflow" assertion.
C4_ExactBufferSuffices ==
    (/\ op = "encode"
     /\ Len(args.pcm) >= samples_per_frame(config) * channels(config)
     /\ args.output_len = frame_size(config))
    => (ret.kind = "Ok" /\ ret.size <= frame_size(config))

\* C5: whenever the packer returns (the buffers passed the size checks and
\* no assertion of the quantizer or the packer failed), the number of bytes
\* it packed is at most MAX_SBC_FRAME_SIZE, so the size assertion at the end
\* of encode_frame holds.
C5_PackedWithinMax ==
    (/\ op = "encode"
     /\ ret.kind \in {"Ok", "panic"}
     /\ ret.detail \in {"", "Frame size exceeded maximum"})
    => (ret.kind = "Ok" /\ ret.size <= MAX_SBC_FRAME_SIZE)

\* C6: encode_frame returns Err(InputTooSmall) whenever the PCM buffer is
\* shorter than samples_per_frame() * channels, and Err(OutputTooSmall)
\* whenever the PCM buffer is long enough and the output buffer is shorter
\* than frame_size(); in both cases the filter history after the call is the
\* history before it.
C6_SizeErrorsKeepHistory ==
    op = "encode" =>
        LET samples_needed == samples_per_frame(config) * channels(config)
        IN  /\ Len(args.pcm) < samples_needed =>
                  /\ ret.kind = "Err"
                  /\ ret.detail = "InputTooSmall"
                  /\ analysis = before.analysis
            /\ (/\ Len(args.pcm) >= samples_needed
                /\ args.output_len < frame_size(config)) =>
                  /\ ret.kind = "Err"
                  /\ ret.detail = "OutputTooSmall"
                  /\ analysis = before.analysis

\* Witness of C6: a call with enough nonzero PCM samples and an output
\* buffer one byte short, on an encoder whose history is not clear, returns
\* OutputTooSmall and leaves the history as it was.
C6_Witness ==
    /\ op = "encode"
    /\ Len(args.pcm) >= samples_per_frame(config) * channels(config)
    /\ \E i \in 1..Len(args.pcm) : args.pcm[i] # 0
    /\ args.output_len = frame_size(config) - 1
    /\ ret.kind = "Err"
    /\ ret.detail = "OutputTooSmall"
    /\ before.analysis # NewAnalysis
    /\ analysis = before.analysis

\* C7: after any sequence of calls, reset() followed by encode_frame(pcm,
\* out) returns what encode_frame(pcm, out) returns on a newly constructed
\* encoder of the same geometry (same outcome, same byte count, same bytes);
\* the same holds of any call on a clear history whatever the packer was
\* left holding, and the packer holds nothing after a call that returns Ok.
C7_ResetEqualsFresh ==
    /\ (op = "encode" /\ (before.after_reset \/ before.analysis = NewAnalysis))
           => ret = before.fresh
    /\ (op = "encode" /\ ret.kind = "Ok") => packer = NewPacker
    /\ op = "reset" => (analysis = NewAnalysis /\ packer = before.packer)

\* Witness of C7: a frame of nonzero samples encoded successfully right
\* after a reset that cleared a history that was not clear, with the bytes a
\* new encoder writes.
C7_Witness ==
    /\ op = "encode"
    /\ before.after_reset
    /\ before.history_cleared
    /\ ret.kind = "Ok"
    /\ ret.size > 4
    /\ \E sb \in SbRange : ret.bits[0][sb] > 0
    /\ ret = before.fresh

\* C11: on an encoder whose filter history is clear (new, just reset, or
\* left clear by the calls before), encode_frame with all-zero PCM returns
\* Ok, leaves the history clear, yields scale factor 0 in every subband and
\* an all-zero bit matrix under both allocation methods, writes 0x9C as the
\* first output byte and stays within MAX_SBC_FRAME_SIZE; the history being
\* clear again, the same holds of the next such call.
C11_SilenceEncodes ==
    (/\ op = "encode"
     /\ before.analysis = NewAnalysis
     /\ Len(args.pcm) >= samples_per_frame(config) * channels(config)
     /\ args.output_len >= frame_size(config)
     /\ \A i \in 1..Len(args.pcm) : args.pcm[i] = 0)
    => /\ ret.kind = "Ok"
       /\ analysis = NewAnalysis
       /\ ret.scale_factors = ZeroMatrix
       /\ ret.bits = ZeroMatrix
       /\ ret.output[1] = SBC_SYNCWORD
       /\ ret.size <= MAX_SBC_FRAME_SIZE

\* Witness of C11: the second of two consecutive successful silence frames,
\* under the loudness allocation method.
C11_Witness ==
    /\ op = "encode"
    /\ calls = MaxCalls
    /\ before.prev_ok
    /\ ~before.after_reset
    /\ before.analysis = NewAnalysis
    /\ config.allocation_method = "Loudness"
    /\ \A i \in 1..Len(args.pcm) : args.pcm[i] = 0
    /\ ret.kind = "Ok"
    /\ ret.bits = ZeroMatrix
    /\ ret.output[1] = SBC_SYNCWORD

(***************************************************************************)
(* Scale factor specification: calc_single_scale_factor applied to every   *)
(* magnitude up to MaxMagnitude and to magnitudes around the powers of two *)
(* above it, up to i32::MAX.                                               *)
(***************************************************************************)
MaxMagnitude == 65535

I32_MAX == Pow2(30) + (Pow2(30) - 1)

ScaleMagnitudes ==
    (0..MaxMagnitude)
      \cup {Pow2(k) + delta : k \in 16..30, delta \in {-1, 0, 1}}
      \cup {I32_MAX}

ScaleInit ==
    /\ config = DefaultConfig
    /\ \E max_val \in ScaleMagnitudes : args = [max_val |-> max_val]
    /\ analysis = NewAnalysis
    /\ packer = NewPacker
    /\ ret = NoRet
    /\ op = "init"
    /\ before = NoArgs
    /\ calls = 0
    /\ PipelineUnused
    /\ MachineUnused

\* Quantizer::calc_single_scale_factor(max_val)
CalcSingleScaleFactor ==
    /\ op = "init"
    /\ op' = "scale"
    /\ ret' = [scale_factor |-> calc_single_scale_factor(args.max_val)]
    /\ UNCHANGED <<config, analysis, packer, args, before, calls>>
    /\ UNCHANGED <<pipeline_vars, machine>>

ScaleNext == CalcSingleScaleFactor

SpecScale == ScaleInit /\ [][ScaleNext]_vars

ValidGeometries == {c \in AllGeometries : is_valid(c)}

\* The geometries with the least bitpool is_valid accepts, and byte 1 of
\* the header of each: pack builds byte 1 without reading the bitpool, so
\* this is byte 1 of every geometry with the same other fields.
MinBitpoolGeometries ==
    {SbcConfig(f, m, b, s, a, 2) :
        f \in SamplingFrequency, m \in ChannelMode, b \in BlockLength,
        s \in Subbands, a \in AllocationMethod}

Byte1Of == [c \in MinBitpoolGeometries |-> HeaderByte1(c)]

HeaderInit ==
    /\ config \in ValidGeometries
    /\ args = [join_flags |-> 0, scale_factors |-> ZeroMatrix,
               bits |-> ZeroMatrix, output_len |-> MAX_SBC_FRAME_SIZE]
    /\ analysis = NewAnalysis
    /\ packer = NewPacker
    /\ ret = NoRet
    /\ op = "init"
    /\ before = NoArgs
    /\ calls = 0
    /\ PipelineUnused
    /\ MachineUnused

\* FramePacker::pack(&config, join_flags, &scale_factors, &bits, &samples,
\* &mut output)
PackHeader ==
    /\ op = "init"
    /\ \E packed \in {pack(packer, config, args.join_flags, args.scale_factors,
                           args.bits, ZeroSubbands, args.output_len)} :
         /\ ret' = [kind |-> IF packed.panic = "" THEN "Ok" ELSE "panic",
                    size |-> packed.size, output |-> packed.output]
         /\ packer' = packed.packer
    /\ op' = "pack"
    /\ UNCHANGED <<config, analysis, args, before, calls>>
    /\ UNCHANGED <<pipeline_vars, machine>>

HeaderNext == PackHeader

SpecHeader == HeaderInit /\ [][HeaderNext]_vars

\* C13: in every packed frame byte 0 is 0x9C, byte 1 carries the frequency
\* code in bits 7-6, the block code in bits 5-4, the channel mode code in
\* bits 3-2, the allocation method code in bit 1 and the subband code in bit
\* 0, each field intact, and byte 2 is the bitpool; no other valid geometry
\* gives the same bytes 1 and 2.
C13_HeaderBytes ==
    op = "pack" =>
        /\ ret.kind = "Ok"
        /\ ret.output[1] = 156
        /\ ret.output[2] \div 64 = FreqIndex(config.sampling_frequency)
        /\ (ret.output[2] \div 16) % 4 = BlockHeaderBits(config.block_length)
        /\ (ret.output[2] \div 4) % 4 = ModeHeaderBits(config.channel_mode)
        /\ (ret.output[2] \div 2) % 2
              = AllocHeaderBits(config.allocation_method)
        /\ ret.output[2] % 2 = SubbandHeaderBits(config.subbands)
        /\ ret.output[3] = config.bitpool
        /\ \A other \in MinBitpoolGeometries :
              (/\ is_valid([other EXCEPT !.bitpool = ret.output[3]])
               /\ Byte1Of[other] = ret.output[2])
              => [other EXCEPT !.bitpool = ret.output[3]] = config

\* Witness of C13: the frame header of a geometry with every field of byte 1
\* nonzero.
C13_Witness ==
    /\ op = "pack"
    /\ config = SbcConfig("Freq44100", "JointStereo", "Blocks16", "Sub8",
                          "Loudness", 53)
    /\ ret.output[1] = 156
    /\ ret.output[2] = 191
    /\ ret.output[3] = 53

\* CRC-8 with polynomial x^8 + x^4 + x^3 + x^2 + 1 (0x1D), most significant
\* bit first, as polynomial division: the message byte is added to the
\* register, which is then reduced eight times.
RECURSIVE Crc8Reduce(_, _)
Crc8Reduce(reg, n) ==
    IF n = 0
    THEN reg
    ELSE Crc8Reduce(IF reg >= 128
                    THEN Xor((reg * 2) % 256, 29, 8)
                    ELSE reg * 2,
                    n - 1)

\* The CRC-8 register after the bytes message[lo..hi], starting from reg.
RECURSIVE Crc8Of(_, _, _, _)
Crc8Of(message, lo, hi, reg) ==
    IF reg > 255 \/ lo > hi
    THEN reg
    ELSE IF lo = hi
         THEN Crc8Reduce(Xor(reg, message[lo], 8), 8)
         ELSE Crc8Of(message, (lo + hi) \div 2 + 1, hi,
                     Crc8Of(message, lo, (lo + hi) \div 2, reg))

\* Bit n of a frame, counted from the most significant bit of byte 0.
BitAt(output, n) == (output[(n \div 8) + 1] \div Pow2(7 - (n % 8))) % 2

\* The value of the num_bits bits of a frame from bit pos on, most
\* significant bit first.
RECURSIVE ReadBits(_, _, _)
ReadBits(output, pos, num_bits) ==
    IF num_bits = 0
    THEN 0
    ELSE 2 * ReadBits(output, pos, num_bits - 1) + BitAt(output, pos + num_bits - 1)

\* The number of join-flag bits pack writes.
JoinBits(c) == IF c.channel_mode = "JointStereo" THEN SubbandCount(c.subbands) ELSE 0

\* The number of bits pack writes after the header.
PayloadBits(c, bits) ==
    JoinBits(c) + 4 * SubbandCount(c.subbands) * channels(c)
        + BlockCount(c.block_length) * TotalBits(bits, c)

\* C25: pack returns exactly 4 + ceil((J + 4 * subbands * channels +
\* blocks * sum of bits) / 8) bytes, J being the number of join-flag bits
\* written; after the header come the join flags, the scale factors in 4
\* bits each and the samples block by block, channel by channel, subband by
\* subband, each in exactly its allocated width, cells with zero bits
\* contributing nothing, and only the last byte is zero-padded.
C25_PackedSizeAndLayout ==
    (/\ op = "encode"
     /\ ret.kind \in {"Ok", "panic"}
     /\ ret.detail \in {"", "Frame size exceeded maximum"})
    => LET num_subbands == SubbandCount(config.subbands)
           cells == channels(config) * num_subbands
           audio == 32 + JoinBits(config) + 4 * cells
           total == TotalBits(ret.bits, config)
       IN  /\ ret.size = 4 + ((PayloadBits(config, ret.bits) + 7) \div 8)
           /\ Len(ret.output) = ret.size
           /\ ReadBits(ret.output, 32, JoinBits(config))
                = ret.join_flags % Pow2(JoinBits(config))
           /\ \A k \in 0..(cells - 1) :
                ReadBits(ret.output, 32 + JoinBits(config) + 4 * k, 4)
                  = ret.scale_factors[CellCh(k, num_subbands)]
                                     [CellSb(k, num_subbands)]
           /\ \A blk \in 0..(BlockCount(config.block_length) - 1) :
              \A k \in 0..(cells - 1) :
                ReadBits(ret.output,
                         audio + blk * total
                               + SumCells(ret.bits, num_subbands, k - 1),
                         ret.bits[CellCh(k, num_subbands)]
                                 [CellSb(k, num_subbands)])
                  = ret.samples[CellCh(k, num_subbands)][blk]
                               [CellSb(k, num_subbands)]
           /\ \A n \in (32 + PayloadBits(config, ret.bits))..(8 * ret.size - 1) :
                BitAt(ret.output, n) = 0

\* Witness of C25: a joint-stereo frame with join flags set, cells with and
\* without bits, nonzero codes and a padded last byte.
C25_Witness ==
    /\ op = "encode"
    /\ ret.kind = "Ok"
    /\ config.channel_mode = "JointStereo"
    /\ ret.join_flags # 0
    /\ \E sb \in SbRange : sb < SubbandCount(config.subbands) /\ ret.bits[0][sb] = 0
    /\ \E sb \in SbRange : ret.bits[0][sb] > 0 /\ ret.samples[0][0][sb] > 0
    /\ PayloadBits(config, ret.bits) % 8 # 0
    /\ ret.size = 4 + ((PayloadBits(config, ret.bits) + 7) \div 8)

\* quantize_sample's value before its final clamp.
QuantizedBeforeClamp(sample, bits, scale_level) ==
    MulShr(TruncDiv(sample * Pow2(15), scale_level) + 32768, Pow2(bits) - 1, 16)

\* The largest magnitude among the subband samples of the active cells.
MaxMagnitudeOf(subbands, c) ==
    LET mags == {Abs(subbands[ch][blk][sb]) :
                    ch \in 0..(channels(c) - 1),
                    blk \in 0..(BlockCount(c.block_length) - 1),
                    sb \in 0..(SubbandCount(c.subbands) - 1)}
    IN  CHOOSE m \in mags : \A other \in mags : other <= m

\* C26: in every encode_frame call whose subband magnitudes are below
\* 65536, each sample handed to the quantizer for a cell with nonzero bits
\* satisfies |sample| < 2^(scale_factor + 1) for the scale factor packed
\* for that cell, the mid and side samples of joined subbands included, so
\* the quantizer's final clamp never changes a code.
C26_QuantizerInputInRange ==
    (/\ op = "encode"
     /\ ret.kind \in {"Ok", "panic"}
     /\ ret.detail # "Invalid bit count"
     /\ MaxMagnitudeOf(process(before.analysis, args.pcm, config).output,
                       config) < 65536)
    => \A ch \in 0..(channels(config) - 1) :
       \A sb \in 0..(SubbandCount(config.subbands) - 1) :
       \A blk \in 0..(BlockCount(config.block_length) - 1) :
          ret.bits[ch][sb] # 0 =>
             /\ Abs(ret.subbands[ch][blk][sb])
                   < Pow2(ret.scale_factors[ch][sb] + 1)
             /\ QuantizedBeforeClamp(
                    ret.subbands[ch][blk][sb], ret.bits[ch][sb],
                    SCALE_FACTOR_LEVELS[ret.scale_factors[ch][sb] + 1])
                  = ret.samples[ch][blk][sb]

RingSizeLog2 == 2

\* N, a power of two (asserted by RingBuffer::new)
RingSize == Pow2(RingSizeLog2)

UsizeModulus == Pow2(30)

WrappingSub(a, b) == (a - b + UsizeModulus) % UsizeModulus

WrappingAdd(a, b) == (a + b) % UsizeModulus

Uninit == -1

\* RingBuffer::new
NewRing ==
    [buffer |-> [idx \in 0..(RingSize - 1) |-> Uninit], head |-> 0, tail |-> 0]

\* available_read on the loaded values of head and tail
AvailableReadOf(head, tail) == WrappingSub(head, tail)

\* available_write on the loaded values, taking any ring size as full.
AvailableWriteOf_NoEmptySlot(head, tail) ==
    RingSize - AvailableReadOf(head, tail)

\* available_write on the loaded values, promising two slots too many.
AvailableWriteOf_TwoTooMany(head, tail) ==
    RingSize + 1 - AvailableReadOf(head, tail)

\* available_write on the loaded values of head and tail
AvailableWriteOf(head, tail) == RingSize - 1 - AvailableReadOf(head, tail)

\* RingBuffer::available_read
available_read(r) == AvailableReadOf(r.head, r.tail)

\* RingBuffer::available_write
available_write(r) == AvailableWriteOf(r.head, r.tail)

\* (pos + i) & (N - 1)
SlotIndex(pos, i) == (pos + i) % RingSize

\* The head write publishes, one short of what it wrote.
PublishedHead_OneShort(head, to_write) == WrappingAdd(head, to_write - 1)

\* head.wrapping_add(to_write), the head write publishes
PublishedHead(head, to_write) == WrappingAdd(head, to_write)

\* tail.wrapping_add(to_read), the tail read publishes
PublishedTail(tail, to_read) == WrappingAdd(tail, to_read)

\* The slot loop of write from iteration i on.
RECURSIVE WriteSlots(_, _, _, _, _)
WriteSlots(buffer, head, data, to_write, i) ==
    IF i >= to_write
    THEN buffer
    ELSE WriteSlots([buffer EXCEPT ![SlotIndex(head, i)] = data[i + 1]],
                    head, data, to_write, i + 1)

\* RingBuffer::write, run from call to return with no step of the consumer
\* in between.
write(r, data) ==
    LET to_write == Min2(Len(data), available_write(r))
    IN  IF to_write = 0
        THEN [ring |-> r, count |-> 0]
        ELSE [ring |-> [buffer |-> WriteSlots(r.buffer, r.head, data,
                                              to_write, 0),
                        head |-> PublishedHead(r.head, to_write),
                        tail |-> r.tail],
              count |-> to_write]

\* RingBuffer::read into a buffer of buf_len items, run from call to return
\* with no step of the producer in between; every slot read here has been
\* written.
read(r, buf_len) ==
    LET to_read == Min2(buf_len, available_read(r))
    IN  IF to_read = 0
        THEN [ring |-> r, count |-> 0, items |-> <<>>]
        ELSE [ring |-> [r EXCEPT !.tail = PublishedTail(r.tail, to_read)],
              count |-> to_read,
              items |-> [i \in 1..to_read |->
                            r.buffer[SlotIndex(r.tail, i - 1)]]]

(***************************************************************************)
(* Ring buffer specification, one atomic access per step: one producer     *)
(* inside write and one consumer inside read, interleaved at the atomic    *)
(* loads of head and tail, the accesses to single slots and the atomic     *)
(* stores.  The producer offers the items 1, 2, 3, ... in order, starting  *)
(* each call after the last item write accepted.                           *)
(***************************************************************************)
MaxItems == 7

MaxChunk == 3

\* The encoder in the specifications that do not use it.
EncoderUnused ==
    /\ config = DefaultConfig
    /\ analysis = NewAnalysis
    /\ packer = NewPacker
    /\ args = NoArgs
    /\ ret = NoRet
    /\ op = "init"
    /\ before = NoArgs
    /\ calls = 0

IdleProducer ==
    [pc |-> "idle", data |-> <<>>, head_a |-> 0, tail_a |-> 0,
     to_write |-> 0, head |-> 0, i |-> 0]

IdleConsumer ==
    [pc |-> "idle", buf_len |-> 0, head_a |-> 0, tail_a |-> 0,
     to_read |-> 0, tail |-> 0, i |-> 0, buf |-> <<>>]

RingInit ==
    /\ EncoderUnused
    /\ MachineUnused
    /\ ring = NewRing
    /\ producer = IdleProducer
    /\ consumer = IdleConsumer
    /\ log = [written |-> <<>>, read |-> <<>>]

\* The producer calls write(data).
WriteCall ==
    /\ producer.pc = "idle"
    /\ Len(log.written) < MaxItems
    /\ \E len \in 0..Min2(MaxChunk, MaxItems - Len(log.written)) :
         producer' = [IdleProducer EXCEPT
                        !.pc = "available_head",
                        !.data = [k \in 1..len |-> Len(log.written) + k]]
    /\ UNCHANGED <<ring, consumer, log, encoder_vars, machine>>

\* write, available_read: self.head.load(Ordering::Acquire)
WriteLoadHead ==
    /\ producer.pc = "available_head"
    /\ producer' = [producer EXCEPT !.pc = "available_tail",
                                    !.head_a = ring.head]
    /\ UNCHANGED <<ring, consumer, log, encoder_vars, machine>>

\* write, available_read: self.tail.load(Ordering::Acquire); then to_write
\* and the early return.
WriteLoadTail ==
    /\ producer.pc = "available_tail"
    /\ \E to_write \in {Min2(Len(producer.data),
                             AvailableWriteOf(producer.head_a, ring.tail))} :
         producer' = IF to_write = 0
                     THEN IdleProducer
                     ELSE [producer EXCEPT !.pc = "head",
                                           !.tail_a = ring.tail,
                                           !.to_write = to_write]
    /\ UNCHANGED <<ring, consumer, log, encoder_vars, machine>>

\* write: self.head.load(Ordering::Relaxed)
WriteLoadOwnHead ==
    /\ producer.pc = "head"
    /\ producer' = [producer EXCEPT !.pc = "slot", !.head = ring.head,
                                    !.i = 0]
    /\ UNCHANGED <<ring, consumer, log, encoder_vars, machine>>

\* write: buffer[idx] = MaybeUninit::new(data[i])
WriteSlot ==
    /\ producer.pc = "slot"
    /\ ring' = [ring EXCEPT
                  !.buffer[SlotIndex(producer.head, producer.i)]
                      = producer.data[producer.i + 1]]
    /\ producer' = [producer EXCEPT
                      !.i = @ + 1,
                      !.pc = IF producer.i + 1 >= producer.to_write
                             THEN "publish" ELSE "slot"]
    /\ UNCHANGED <<consumer, log, encoder_vars, machine>>

\* write: self.head.store(head.wrapping_add(to_write), Ordering::Release)
\* and the return of to_write.
WritePublish ==
    /\ producer.pc = "publish"
    /\ ring' = [ring EXCEPT
                  !.head = PublishedHead(producer.head, producer.to_write)]
    /\ log' = [log EXCEPT
                 !.written = @ \o SubSeq(producer.data, 1, producer.to_write)]
    /\ producer' = IdleProducer
    /\ UNCHANGED <<consumer, encoder_vars, machine>>

\* The consumer calls read(buf).
ReadCall ==
    /\ consumer.pc = "idle"
    /\ \E len \in 0..MaxChunk :
         consumer' = [IdleConsumer EXCEPT !.pc = "available_head",
                                          !.buf_len = len]
    /\ UNCHANGED <<ring, producer, log, encoder_vars, machine>>

\* read, available_read: self.head.load(Ordering::Acquire)
ReadLoadHead ==
    /\ consumer.pc = "available_head"
    /\ consumer' = [consumer EXCEPT !.pc = "available_tail",
                                    !.head_a = ring.head]
    /\ UNCHANGED <<ring, producer, log, encoder_vars, machine>>

\* read, available_read: self.tail.load(Ordering::Acquire); then to_read and
\* the early return.
ReadLoadTail ==
    /\ consumer.pc = "available_tail"
    /\ \E to_read \in {Min2(consumer.buf_len,
                            AvailableReadOf(consumer.head_a, ring.tail))} :
         consumer' = IF to_read = 0
                     THEN IdleConsumer
                     ELSE [consumer EXCEPT !.pc = "tail",
                                           !.tail_a = ring.tail,
                                           !.to_read = to_read]
    /\ UNCHANGED <<ring, producer, log, encoder_vars, machine>>

\* read: self.tail.load(Ordering::Relaxed)
ReadLoadOwnTail ==
    /\ consumer.pc = "tail"
    /\ consumer' = [consumer EXCEPT !.pc = "slot", !.tail = ring.tail,
                                    !.i = 0]
    /\ UNCHANGED <<ring, producer, log, encoder_vars, machine>>

\* read: buf[i] = buffer[idx].assume_init()
ReadSlot ==
    /\ consumer.pc = "slot"
    /\ \E item \in (IF ring.buffer[SlotIndex(consumer.tail, consumer.i)]
                        = Uninit
                    THEN 0..MaxItems
                    ELSE {ring.buffer[SlotIndex(consumer.tail, consumer.i)]}) :
         consumer' = [consumer EXCEPT
                        !.buf = Append(@, item),
                        !.i = @ + 1,
                        !.pc = IF consumer.i + 1 >= consumer.to_read
                               THEN "publish" ELSE "slot"]
    /\ UNCHANGED <<ring, producer, log, encoder_vars, machine>>

\* read: self.tail.store(tail.wrapping_add(to_read), Ordering::Release) and
\* the return of to_read.
ReadPublish ==
    /\ consumer.pc = "publish"
    /\ ring' = [ring EXCEPT
                  !.tail = PublishedTail(consumer.tail, consumer.to_read)]
    /\ log' = [log EXCEPT !.read = @ \o consumer.buf]
    /\ consumer' = IdleConsumer
    /\ UNCHANGED <<producer, encoder_vars, machine>>

RingNext ==
    \/ WriteCall \/ WriteLoadHead \/ WriteLoadTail \/ WriteLoadOwnHead
    \/ WriteSlot \/ WritePublish
    \/ ReadCall \/ ReadLoadHead \/ ReadLoadTail \/ ReadLoadOwnTail
    \/ ReadSlot \/ ReadPublish

SpecRing == RingInit /\ [][RingNext]_vars

\* C15: in every interleaving of one producer in write and one consumer in
\* read, the items read has returned so far are, in order, the first items
\* write has accepted: none lost, duplicated or reordered.
C15_ReadIsPrefixOfWritten ==
    /\ Len(log.read) <= Len(log.written)
    /\ log.read = SubSeq(log.written, 1, Len(log.read))
    /\ log.written = [k \in 1..Len(log.written) |-> k]

\* Witness of C15: every offered item has been written and read back, the
\* slot indices having wrapped around the end of the storage.
C15_Witness ==
    /\ Len(log.read) = MaxItems
    /\ MaxItems > RingSize
    /\ log.read = log.written
    /\ ring.head = MaxItems
    /\ SlotIndex(ring.head, 0) < ring.head

\* C16: at the granularity of single atomic loads, slot accesses and atomic
\* stores, the slot the producer is about to write holds no item between the
\* published tail and the published head (none the consumer has yet to
\* finish reading), and the slot the consumer is about to read lies before
\* the published head and holds the item written at that position.
C16_SlotsNeverShared ==
    /\ producer.pc = "slot" =>
         \A pos \in ring.tail..(ring.head - 1) :
            SlotIndex(pos, 0) # SlotIndex(producer.head, producer.i)
    /\ consumer.pc = "slot" =>
         /\ consumer.tail + consumer.i < ring.head
         /\ ring.buffer[SlotIndex(consumer.tail, consumer.i)]
              = consumer.tail + consumer.i + 1
         /\ ring.buffer[SlotIndex(consumer.tail, consumer.i)]
              = log.written[consumer.tail + consumer.i + 1]

\* Witness of C16: the producer is about to write a slot past the end of
\* the storage (a wrapped index) while the consumer is about to read
\* another slot.
C16_Witness ==
    /\ producer.pc = "slot"
    /\ consumer.pc = "slot"
    /\ producer.head + producer.i >= RingSize
    /\ ring.buffer[SlotIndex(producer.head, producer.i)] # Uninit
    /\ SlotIndex(producer.head, producer.i)
         # SlotIndex(consumer.tail, consumer.i)

(***************************************************************************)
(* Ring buffer specification, one call per step: write and read calls on   *)
(* one RingBuffer in any order, each running from call to return.          *)
(***************************************************************************)
RingCallsInit ==
    /\ config = DefaultConfig
    /\ analysis = NewAnalysis
    /\ packer = NewPacker
    /\ args = NoArgs
    /\ ret = NoRet
    /\ op = "init"
    /\ before = [ring |-> NewRing]
    /\ calls = 0
    /\ MachineUnused
    /\ ring = NewRing
    /\ producer = IdleProducer
    /\ consumer = IdleConsumer
    /\ log = [written |-> <<>>, read |-> <<>>]

\* RingBuffer::write(data)
Write ==
    /\ \E len \in 0..MaxChunk :
       \E r \in {write(ring, [k \in 1..len |-> Len(log.written) + k])} :
         /\ Len(log.written) + r.count <= MaxItems
         /\ ring' = r.ring
         /\ args' = [len |-> len]
         /\ ret' = [count |-> r.count, items |-> <<>>]
         /\ log' = [log EXCEPT
                      !.written = @ \o [k \in 1..r.count |->
                                           Len(log.written) + k]]
    /\ op' = "write"
    /\ before' = [ring |-> ring]
    /\ UNCHANGED <<config, analysis, packer, calls, producer, consumer,
                   machine>>

\* RingBuffer::read(buf)
Read ==
    /\ \E len \in 0..MaxChunk :
       \E r \in {read(ring, len)} :
         /\ ring' = r.ring
         /\ args' = [len |-> len]
         /\ ret' = [count |-> r.count, items |-> r.items]
         /\ log' = [log EXCEPT !.read = @ \o r.items]
    /\ op' = "read"
    /\ before' = [ring |-> ring]
    /\ UNCHANGED <<config, analysis, packer, calls, producer, consumer,
                   machine>>

RingCallsNext == Write \/ Read

SpecRingCalls == RingCallsInit /\ [][RingCallsNext]_vars

\* C17: after any sequence of write and read calls on a RingBuffer of size
\* N, available_read() + available_write() = N - 1, the number of buffered
\* items is available_read() and at most N - 1; write accepts exactly
\* min(data.len(), available_write()) items and read returns exactly
\* min(buf.len(), available_read()) items, so a write to a full buffer and
\* a read from an empty buffer return 0 and change nothing.
C17_RingCapacity ==
    /\ available_read(ring) + available_write(ring) = RingSize - 1
    /\ available_read(ring) = Len(log.written) - Len(log.read)
    /\ available_read(ring) \in 0..(RingSize - 1)
    /\ available_write(ring) \in 0..(RingSize - 1)
    /\ op = "write" =>
         /\ ret.count = Min2(args.len, available_write(before.ring))
         /\ available_write(before.ring) = 0 =>
              (ret.count = 0 /\ ring = before.ring)
    /\ op = "read" =>
         /\ ret.count = Min2(args.len, available_read(before.ring))
         /\ Len(ret.items) = ret.count
         /\ available_read(before.ring) = 0 =>
              (ret.count = 0 /\ ring = before.ring)

\* Witness of C17: a write of several items to a full buffer, whose indices
\* have wrapped, returns 0 and changes nothing.
C17_Witness ==
    /\ op = "write"
    /\ args.len > 1
    /\ available_write(before.ring) = 0
    /\ available_read(before.ring) = RingSize - 1
    /\ before.ring.head > RingSize
    /\ ret.count = 0
    /\ ring = before.ring

(***************************************************************************)
(* Connection state machine (a2dp-app): StateMachine, its events and the   *)
(* actions process returns.                                                *)
(***************************************************************************)
A2dpState ==
    {"Disconnected", "Discoverable", "Connecting", "Connected",
     "Configuring", "Open", "Streaming", "Suspended", "Disconnecting"}

\* Option<T>
None == [some |-> FALSE]

Some(v) == [some |-> TRUE, value |-> v]

\* Remote device addresses, ACL handles and error codes events carry.
MaxAddr == 2

MaxHandle == 1

MaxErrorCode == 1

BdAddr == 1..MaxAddr

PlainEvents ==
    {"MakeDiscoverable", "StartStream", "PauseStream", "Disconnect",
     "ConnectionFailed", "L2capConnected", "AvdtpConfigured", "StreamOpened",
     "StreamStarted", "StreamSuspended", "Disconnected", "Timeout"}

Event ==
    {[kind |-> k] : k \in PlainEvents}
        \cup {[kind |-> "Connect", addr |-> a] : a \in BdAddr}
        \cup {[kind |-> "ConnectionComplete", handle |-> h] : h \in 0..MaxHandle}
        \cup {[kind |-> "Error", code |-> c] : c \in 0..MaxErrorCode}

Action(kind) == [kind |-> kind]

\* StateMachine::new()
NewStateMachine ==
    [state |-> "Disconnected", remote_addr |-> None, acl_handle |-> None,
     remote_seid |-> None]

\* StateMachine::state()
state(m) == m.state

\* StateMachine::remote_addr()
remote_addr(m) == m.remote_addr

\* An arm of the match in process that took the event, and no arm of the
\* state's group taking it.
Taken(m, action) == [taken |-> TRUE, machine |-> m, action |-> action]

NotTaken == [taken |-> FALSE]

FromDisconnected(m, event) ==
    IF event.kind = "MakeDiscoverable"
    THEN Taken([m EXCEPT !.state = "Discoverable"], Action("EnableDiscovery"))
    ELSE IF event.kind = "Connect"
    THEN Taken([m EXCEPT !.remote_addr = Some(event.addr),
                         !.state = "Connecting"],
               [kind |-> "InitiateConnection", addr |-> event.addr])
    ELSE NotTaken

FromDiscoverable(m, event) ==
    IF event.kind = "ConnectionComplete"
    THEN Taken([m EXCEPT !.acl_handle = Some(event.handle),
                         !.state = "Connected"],
               Action("OpenL2cap"))
    ELSE IF event.kind = "Disconnect"
    THEN Taken([m EXCEPT !.state = "Disconnected"], Action("None"))
    ELSE NotTaken

\* The mutant of FromConnecting that enters Connected when the connection
\* attempt times out.
FromConnecting_TimeoutConnects(m, event) ==
    IF event.kind = "ConnectionComplete"
    THEN Taken([m EXCEPT !.acl_handle = Some(event.handle),
                         !.state = "Connected"],
               Action("OpenL2cap"))
    ELSE IF event.kind = "ConnectionFailed"
    THEN Taken([m EXCEPT !.state = "Disconnected", !.remote_addr = None],
               Action("UpdateLed"))
    ELSE IF event.kind = "Timeout"
    THEN Taken([m EXCEPT !.state = "Connected"], Action("UpdateLed"))
    ELSE NotTaken

FromConnecting(m, event) ==
    IF event.kind = "ConnectionComplete"
    THEN Taken([m EXCEPT !.acl_handle = Some(event.handle),
                         !.state = "Connected"],
               Action("OpenL2cap"))
    ELSE IF event.kind \in {"ConnectionFailed", "Timeout"}
    THEN Taken([m EXCEPT !.state = "Disconnected", !.remote_addr = None],
               Action("UpdateLed"))
    ELSE NotTaken

FromConnected(m, event) ==
    IF event.kind = "L2capConnected"
    THEN Taken([m EXCEPT !.state = "Configuring"], Action("SendAvdtpDiscover"))
    ELSE IF event.kind = "Disconnect"
    THEN Taken([m EXCEPT !.state = "Disconnecting"],
               Action("InitiateDisconnect"))
    ELSE NotTaken

FromConfiguring(m, event) ==
    IF event.kind = "AvdtpConfigured"
    THEN Taken([m EXCEPT !.state = "Open"], Action("UpdateLed"))
    ELSE IF event.kind = "Error"
    THEN Taken([m EXCEPT !.state = "Disconnecting"],
               Action("InitiateDisconnect"))
    ELSE NotTaken

FromOpen(m, event) ==
    IF event.kind = "StartStream"
    THEN Taken(m, Action("SendStart"))
    ELSE IF event.kind = "StreamStarted"
    THEN Taken([m EXCEPT !.state = "Streaming"], Action("UpdateLed"))
    ELSE IF event.kind = "Disconnect"
    THEN Taken([m EXCEPT !.state = "Disconnecting"], Action("SendClose"))
    ELSE NotTaken

FromStreaming(m, event) ==
    IF event.kind = "PauseStream"
    THEN Taken(m, Action("SendSuspend"))
    ELSE IF event.kind = "StreamSuspended"
    THEN Taken([m EXCEPT !.state = "Suspended"], Action("UpdateLed"))
    ELSE IF event.kind = "Disconnect"
    THEN Taken([m EXCEPT !.state = "Disconnecting"], Action("SendClose"))
    ELSE NotTaken

FromSuspended(m, event) ==
    IF event.kind = "StartStream"
    THEN Taken(m, Action("SendStart"))
    ELSE IF event.kind = "StreamStarted"
    THEN Taken([m EXCEPT !.state = "Streaming"], Action("UpdateLed"))
    ELSE IF event.kind = "Disconnect"
    THEN Taken([m EXCEPT !.state = "Disconnecting"], Action("SendClose"))
    ELSE NotTaken

FromDisconnecting(m, event) ==
    IF event.kind = "Disconnected"
    THEN Taken([m EXCEPT !.state = "Disconnected", !.remote_addr = None,
                         !.acl_handle = None, !.remote_seid = None],
               Action("UpdateLed"))
    ELSE NotTaken

\* The arms of the match for the machine's own state.
FromState(m, event) ==
    CASE m.state = "Disconnected" -> FromDisconnected(m, event)
      [] m.state = "Discoverable" -> FromDiscoverable(m, event)
      [] m.state = "Connecting" -> FromConnecting(m, event)
      [] m.state = "Connected" -> FromConnected(m, event)
      [] m.state = "Configuring" -> FromConfiguring(m, event)
      [] m.state = "Open" -> FromOpen(m, event)
      [] m.state = "Streaming" -> FromStreaming(m, event)
      [] m.state = "Suspended" -> FromSuspended(m, event)
      [] m.state = "Disconnecting" -> FromDisconnecting(m, event)

\* Mutant of GlobalErrorHandling: the ACL handle is kept.
GlobalErrorHandling_KeepsHandle(m, event) ==
    IF event.kind \in {"ConnectionFailed", "Error"}
    THEN Taken([m EXCEPT !.state = "Disconnected", !.remote_addr = None],
               Action("UpdateLed"))
    ELSE Taken(m, Action("None"))

\* Global error handling, and the arm for unhandled events.
GlobalErrorHandling(m, event) ==
    IF event.kind \in {"ConnectionFailed", "Error"}
    THEN Taken([m EXCEPT !.state = "Disconnected", !.remote_addr = None,
                         !.acl_handle = None],
               Action("UpdateLed"))
    ELSE Taken(m, Action("None"))

\* StateMachine::process(event): the new machine and the action returned.
StateMachineProcess(m, event) ==
    IF FromState(m, event).taken
    THEN FromState(m, event)
    ELSE GlobalErrorHandling(m, event)

\* Mutant of StateMachineReset: the ACL handle is kept.
StateMachineReset_KeepsHandle(m) ==
    [m EXCEPT !.state = "Disconnected", !.remote_addr = None,
              !.remote_seid = None]

\* StateMachine::reset()
StateMachineReset(m) ==
    [m EXCEPT !.state = "Disconnected", !.remote_addr = None,
              !.acl_handle = None, !.remote_seid = None]

(***************************************************************************)
(* State machine specification: any sequence of process and reset calls on *)
(* one StateMachine.  log.flow is the number of events of the connection   *)
(* flow (Connect, ConnectionComplete, L2capConnected, AvdtpConfigured)     *)
(* the latest calls were, in order, starting in Disconnected.              *)
(***************************************************************************)
ConnectionFlow ==
    <<"Connect", "ConnectionComplete", "L2capConnected", "AvdtpConfigured">>

FlowAfter(flow, m, event) ==
    IF flow < Len(ConnectionFlow) /\ flow > 0
          /\ event.kind = ConnectionFlow[flow + 1]
    THEN flow + 1
    ELSE IF m.state = "Disconnected" /\ event.kind = ConnectionFlow[1]
    THEN 1
    ELSE 0

MachineInit ==
    /\ config = DefaultConfig
    /\ analysis = NewAnalysis
    /\ packer = NewPacker
    /\ args = NoArgs
    /\ ret = NoRet
    /\ op = "init"
    /\ before = [machine |-> NewStateMachine]
    /\ calls = 0
    /\ ring = [none |-> TRUE]
    /\ producer = [none |-> TRUE]
    /\ consumer = [none |-> TRUE]
    /\ log = [flow |-> 0]
    /\ machine = NewStateMachine

\* A call of process(event).
ProcessEvent ==
    /\ \E event \in Event :
       \E r \in {StateMachineProcess(machine, event)} :
         /\ machine' = r.machine
         /\ args' = [event |-> event]
         /\ ret' = [kind |-> "Action", action |-> r.action]
         /\ log' = [flow |-> FlowAfter(log.flow, machine, event)]
    /\ op' = "process"
    /\ before' = [machine |-> machine]
    /\ UNCHANGED <<config, analysis, packer, calls, ring, producer, consumer>>

\* A call of reset().
ResetMachine ==
    /\ machine' = StateMachineReset(machine)
    /\ args' = NoArgs
    /\ ret' = NoRet
    /\ op' = "reset"
    /\ before' = [machine |-> machine]
    /\ log' = [flow |-> 0]
    /\ UNCHANGED <<config, analysis, packer, calls, ring, producer, consumer>>

MachineNext == ProcessEvent \/ ResetMachine

SpecMachine == MachineInit /\ [][MachineNext]_vars

\* C18: from Disconnected, processing Connect, ConnectionComplete,
\* L2capConnected and AvdtpConfigured in that order moves the machine
\* through Connecting, Connected and Configuring to Open; and in every
\* event sequence Open is entered only by AvdtpConfigured in Configuring,
\* Configuring only by L2capConnected in Connected, and Connected only by
\* ConnectionComplete.
C18_ConnectionFlow ==
    /\ log.flow = 1 => state(machine) = "Connecting"
    /\ log.flow = 2 => state(machine) = "Connected"
    /\ log.flow = 3 => state(machine) = "Configuring"
    /\ log.flow = 4 => state(machine) = "Open"
    /\ (state(machine) = "Open" /\ state(before.machine) # "Open") =>
         /\ op = "process"
         /\ args.event.kind = "AvdtpConfigured"
         /\ state(before.machine) = "Configuring"
    /\ (state(machine) = "Configuring"
           /\ state(before.machine) # "Configuring") =>
         /\ op = "process"
         /\ args.event.kind = "L2capConnected"
         /\ state(before.machine) = "Connected"
    /\ (state(machine) = "Connected"
           /\ state(before.machine) # "Connected") =>
         /\ op = "process"
         /\ args.event.kind = "ConnectionComplete"

\* Witness of C18: the connection flow has just been processed in full and
\* the machine entered Open from Configuring.
C18_Witness ==
    /\ log.flow = 4
    /\ op = "process"
    /\ args.event.kind = "AvdtpConfigured"
    /\ state(before.machine) = "Configuring"
    /\ state(machine) = "Open"
    /\ machine.remote_addr = Some(2)
    /\ machine.acl_handle = Some(1)

ConnectedStates ==
    {"Connected", "Configuring", "Open", "Streaming", "Suspended"}

\* C19: whenever the machine is in a connected state (Connected,
\* Configuring, Open, Streaming or Suspended), remote_addr() returns Some
\* address, after any sequence of events.
C19_RemoteAddrWhenConnected ==
    state(machine) \in ConnectedStates => remote_addr(machine).some

(***************************************************************************)
(* Analysis specification: AnalysisFilter::process run block by block and  *)
(* channel by channel, as its loops run, on frames of 4 blocks, with       *)
(* reset calls between frames.  log.fed[ch + 1] is the PCM samples of      *)
(* channel ch processed since construction or reset, oldest first.         *)
(***************************************************************************)
MaxFrames == 3

I16_MIN == -32768

AnalysisGeometries ==
    {SbcConfig("Freq44100", m, "Blocks4", sb, "Loudness", 8) :
        m \in {"Mono", "Stereo"}, sb \in Subbands}

FrameKinds == {"rising", "low"}

\* The interleaved PCM of frame n: every sample differs from every other
\* sample of the run.
FramePcm(kind, n, c) ==
    [idx \in 1..(samples_per_frame(c) * channels(c)) |->
        IF kind = "rising" THEN 100 * n + idx ELSE I16_MIN + 100 * n + idx]

AnalysisInit ==
    /\ config \in AnalysisGeometries
    /\ analysis = NewAnalysis
    /\ packer = NewPacker
    /\ args = NoArgs
    /\ ret = NoRet
    /\ op = "init"
    /\ before = [analysis |-> NewAnalysis, call |-> NewAnalysis]
    /\ calls = 0
    /\ ring = [none |-> TRUE]
    /\ producer = [none |-> TRUE]
    /\ consumer = [none |-> TRUE]
    /\ log = [fed |-> <<<<>>, <<>>>>]
    /\ MachineUnused

\* A call of process(pcm, config): the size assertion holds and the output
\* is zeroed.
ProcessCall ==
    /\ op \in {"init", "return", "reset"}
    /\ calls < MaxFrames
    /\ \E kind \in FrameKinds :
         args' = [pcm |-> FramePcm(kind, calls + 1, config), blk |-> 0, ch |-> 0]
    /\ ret' = [kind |-> "output", output |-> ZeroSubbands]
    /\ op' = "call"
    /\ calls' = calls + 1
    /\ before' = [analysis |-> analysis, call |-> analysis]
    /\ UNCHANGED <<config, analysis, packer, pipeline_vars, machine>>

\* One pass of the loop body of process: shift_in_samples and
\* compute_subbands for block args.blk and channel args.ch.
ProcessStep ==
    /\ op \in {"call", "step"}
    /\ args.blk < BlockCount(config.block_length)
    /\ \E st \in {ProcessBlock(
                     [x |-> analysis.x[args.ch], out |-> ret.output[args.ch]],
                     shift_in_samples(analysis.x[args.ch], args.pcm, args.blk,
                                      args.ch, SubbandCount(config.subbands),
                                      channels(config)),
                     SubbandCount(config.subbands), args.blk)} :
         /\ analysis' = [analysis EXCEPT !.x[args.ch] = st.x]
         /\ ret' = [ret EXCEPT !.output[args.ch] = st.out]
    /\ log' = [log EXCEPT !.fed[args.ch + 1] =
                 @ \o [k \in 1..SubbandCount(config.subbands) |->
                          args.pcm[(args.blk * SubbandCount(config.subbands)
                                      + (k - 1)) * channels(config)
                                   + args.ch + 1]]]
    /\ args' = IF args.ch + 1 < channels(config)
               THEN [args EXCEPT !.ch = args.ch + 1]
               ELSE [args EXCEPT !.ch = 0, !.blk = args.blk + 1]
    /\ op' = "step"
    /\ before' = [analysis |-> analysis, call |-> before.call,
                  blk |-> args.blk, ch |-> args.ch]
    /\ UNCHANGED <<config, packer, calls, ring, producer, consumer, machine>>

\* process returns its output.
ProcessReturn ==
    /\ op \in {"call", "step"}
    /\ args.blk >= BlockCount(config.block_length)
    /\ op' = "return"
    /\ UNCHANGED <<config, analysis, packer, args, ret, before, calls,
                   pipeline_vars, machine>>

\* A call of reset() between two frames.
AnalysisResetCall ==
    /\ op = "return"
    /\ analysis' = AnalysisReset(analysis)
    /\ log' = [fed |-> <<<<>>, <<>>>>]
    /\ op' = "reset"
    /\ before' = [analysis |-> analysis, call |-> analysis]
    /\ UNCHANGED <<config, packer, args, ret, calls, ring, producer, consumer,
                   machine>>

AnalysisNext ==
    ProcessCall \/ ProcessStep \/ ProcessReturn \/ AnalysisResetCall

SpecAnalysis == AnalysisInit /\ [][AnalysisNext]_vars

\* The i-th most recent sample of a channel (0 the newest), 0 where fewer
\* have been fed.
RecentSample(fed, i) == IF i < Len(fed) THEN fed[Len(fed) - i] ELSE 0

\* C23: after any sequence of processed blocks since construction or
\* reset, the first 10 * subbands entries of each channel's history hold
\* that channel's most recent PCM samples, newest first, 0 where fewer have
\* been fed; each block step moves every entry back by subbands positions,
\* writes the block's samples of the channel reversed at 0..subbands-1 and
\* leaves the other channel's history unchanged.
C23_HistoryHoldsRecentSamples ==
    /\ \A ch \in ChRange :
         \A i \in 0..(SubbandCount(config.subbands) * FILTER_DEPTH - 1) :
            analysis.x[ch][i] = RecentSample(log.fed[ch + 1], i)
    /\ op = "step" =>
         /\ \A ch \in ChRange \ {before.ch} :
               analysis.x[ch] = before.analysis.x[ch]
         /\ \A i \in HistoryRange :
               analysis.x[before.ch][i] =
                  IF i < SubbandCount(config.subbands)
                  THEN RecentSample(log.fed[before.ch + 1], i)
                  ELSE IF i < SubbandCount(config.subbands) * FILTER_DEPTH
                  THEN before.analysis.x[before.ch][i - SubbandCount(config.subbands)]
                  ELSE before.analysis.x[before.ch][i]
    /\ op = "return" =>
         /\ analysis = process(before.call, args.pcm, config).analysis
         /\ ret.output = process(before.call, args.pcm, config).output

\* Witness of C23: a block step of the second channel after more than ten
\* blocks of it, so that samples have been discarded from a full history.
C23_Witness ==
    /\ op = "step"
    /\ before.ch = 1
    /\ Len(log.fed[2]) > SubbandCount(config.subbands) * FILTER_DEPTH
    /\ analysis.x[1][SubbandCount(config.subbands) * FILTER_DEPTH - 1] # 0
    /\ analysis.x[1] # before.analysis.x[1]

\* C24 as stated: in every state, processing a ConnectionFailed or an Error
\* event moves the machine to Disconnected and clears the remote address
\* and the ACL handle.
C24_ErrorsAlwaysDisconnect ==
    (op = "process" /\ args.event.kind \in {"ConnectionFailed", "Error"})
    => /\ state(machine) = "Disconnected"
       /\ machine.remote_addr = None
       /\ machine.acl_handle = None

\* C24, amended: processing a ConnectionFailed or an Error event moves the
\* machine to Disconnected and clears the remote address and the ACL
\* handle, except for an Error in Configuring, which moves it to
\* Disconnecting, returns InitiateDisconnect and keeps both.
C24_ErrorsDisconnect ==
    (op = "process" /\ args.event.kind \in {"ConnectionFailed", "Error"})
    => IF state(before.machine) = "Configuring" /\ args.event.kind = "Error"
       THEN /\ state(machine) = "Disconnecting"
            /\ machine.remote_addr = before.machine.remote_addr
            /\ machine.acl_handle = before.machine.acl_handle
            /\ ret.action = Action("InitiateDisconnect")
       ELSE /\ state(machine) = "Disconnected"
            /\ machine.remote_addr = None
            /\ machine.acl_handle = None
            /\ ret.action = Action("UpdateLed")

\* Witness of C24: an Error while streaming to a known device drops the
\* connection, the address and the handle.
C24_Witness ==
    /\ op = "process"
    /\ args.event.kind = "Error"
    /\ state(before.machine) = "Streaming"
    /\ before.machine.remote_addr = Some(1)
    /\ before.machine.acl_handle = Some(1)
    /\ machine = NewStateMachine

\* C28: after any sequence of process and reset calls the ACL handle is set
\* exactly when the state is Connected, Configuring, Open, Streaming,
\* Suspended or Disconnecting, and in Disconnected the remote address is
\* None.
C28_HandleMatchesState ==
    /\ machine.acl_handle.some
         <=> state(machine) \in ConnectedStates \cup {"Disconnecting"}
    /\ state(machine) = "Disconnected" => machine.remote_addr = None

\* Witness of C28: reset in the middle of a disconnection clears the handle
\* and the address.
C28_Witness ==
    /\ op = "reset"
    /\ state(before.machine) = "Disconnecting"
    /\ before.machine.acl_handle.some
    /\ before.machine.remote_addr.some
    /\ machine = NewStateMachine

\* C29: in each of the states Connected, Configuring, Open, Streaming and
\* Suspended, processing a Disconnect event moves the machine to
\* Disconnecting and returns an action other than Action::None.
C29_DisconnectNeverIgnored ==
    (/\ op = "process"
     /\ args.event.kind = "Disconnect"
     /\ state(before.machine) \in ConnectedStates)
    => /\ state(machine) = "Disconnecting"
       /\ ret.action # Action("None")

==========================================================================
